---- MODULE Spec2Model ----
(***************************************************************************)
(* Message-plane runtime of the pub/sub relay: the broker facade, its      *)
(* batched write pipeline and retention sweep over the embedded store, the *)
(* in-memory subscription registry, the two subscriber transports and the  *)
(* read cache in front of the dashboard queries.                           *)
(*                                                                         *)
(* Time is a discrete clock `now` counted in seconds.  The store is the    *)
(* committed content `db`; a writer's open transaction works on a private  *)
(* copy that replaces `db` at COMMIT and is discarded at ROLLBACK.         *)
(***************************************************************************)
EXTENDS Integers, Sequences, FiniteSets, TLC

(***************************************************************************)
(* Bounds of the model.                                                    *)
(***************************************************************************)
\* Commands the producers may send on the batcher queue in one behaviour.
MaxCmds == 3
\* Last instant of the clock.
MaxTime == 3

(***************************************************************************)
(* Program constants.  A capacity the code sets in the hundreds or the     *)
(* thousands is scaled down, and the formulas refer to it by name.         *)
(***************************************************************************)
\* Vec::with_capacity(500) / `batch.len() >= 500`, scaled.
BATCH_CAPACITY == 2
\* const MAX_MESSAGES: i64 = 10_000, scaled.
MAX_MESSAGES == 2
\* const MAX_CONSUMPTIONS: i64 = 10_000, scaled.
MAX_CONSUMPTIONS == 2
\* const MAX_AGE_HOURS: f64 = 24.0, as MAX_AGE_HOURS * 3600.0 seconds, scaled.
MAX_AGE == 2
\* PURGE_INTERVAL_MINUTES * 60, scaled to the model's clock
PURGE_INTERVAL == 1
\* `broadcast::channel(1000)`, scaled
BUS_CAPACITY == 2
\* `tokio::sync::broadcast::channel(1000)` of a topic, scaled
TOPIC_CAPACITY == 1
\* Strings sent on the topic channels in one behaviour.
MaxTopicSends == 3
\* Rows a table holds when a purge is applied to a drawn store.
MaxRows == 3

\* `LIMIT 100` of get_messages, scaled.
MESSAGES_LIMIT == 1
\* QueryCache::new(2): the cache TTL in seconds.
TTL == 2
\* GET /messages requests in one behaviour.
MaxGets == 2

\* Publish requests (POST /publish) in one behaviour.
MaxPublish == 2
\* Subscribe requests the sessions send in one behaviour.
MaxSubs == 1
MaxCalls == 4

\* Sessions of the room-based transport (Socket.IO) and of the raw-frames
\* transport (WebSocket /ws).
SioSids   == {"s1"}
WsSids    == {"w1"}
Sids      == SioSids \cup WsSids
Consumers == {"C"}
Producers == {"P"}
MsgIds    == {"m1"}
\* Topic names a producer or a consumer may use; "__all__" is a string like
\* any other on the wire.  "" is a field left empty.
Topics    == {"T", "T2", "__all__"}
\* `if topic == "*"`: the wildcard a subscribe request may name
Wildcard  == "*"
\* `socket.join("__all__")`, `ns.to("__all__")`
AllRoom   == "__all__"

VARIABLES
    now,            \* current_timestamp(), in seconds
    db,             \* committed content of the store
    writer,         \* holder of the store's write lock: "none", "batch", "purge"
    db_queue,       \* every DbCommand sent on db_tx, in send order
    db_rx,          \* how many of them the batch worker has received
    batch,          \* the batch worker's local buffer
    worker,         \* the batch worker: at select!, or inside flush_batch
    event_log,      \* every BroadcastEvent sent on event_tx, in send order
    applied,        \* history: the commands committed, in apply order: seq tag, commit time
    dropped,        \* history: seq tags of the commands of failed flushes
    lastFlush,      \* history: outcome of the last flush_batch and the store before it
    purge,          \* the purge worker: idle, or inside purge_old_data
    lastPurge,      \* history: outcome of the last purge_old_data, its cutoff, the store before
    interval,       \* the purge worker's tokio interval: deadline of the next tick, ticks completed
    subscriptions,  \* Broker.subscriptions: sid -> (consumer, topics, connected_at)
    added,          \* history: the topics written for a session since its entry was last removed
    conn,           \* each session: "new", "open", "closed"
    sub,            \* each session's subscribe handler in flight
    disc,           \* each session's disconnect handling
    reqs,           \* history: the topic lists of the subscribe requests a session sent
    rooms,          \* Socket.IO: the rooms each socket is in
    received,       \* Socket.IO: the "message" events emitted to each socket
    topic_channels, \* AppState.topic_channels: topic -> what was sent on its broadcast sender
    topic_tasks,    \* WebSocket: each session's topic-follower tasks
    egress,         \* WebSocket: what was pushed on each session's internal_tx
    event_rx,       \* WebSocket: the event each session's broadcast_task reads next (0: no receiver)
    pub,            \* the publish_handler calls
    dashboard_enabled, \* AppState.dashboard_enabled
    cache,          \* AppState.cache.messages: empty, or one (data, timestamp)
    gets,           \* the messages_handler calls (GET /messages)
    calls,          \* history: the arguments of the register_subscription calls made on the facade
    bus,            \* Event Bus receivers: the event main's relay task reads next (0: task over);
                    \* history: the receivers signalled a lag, the events relayed to Socket.IO
    ws_tasks,       \* WebSocket: each session's send_task (its state, how many egress
                    \* strings it wrote to the wire) and the tasks whose abort() was
                    \* called and that have not stopped yet; history: how many strings
                    \* had been pushed on the egress when the cleanup ended
    graph           \* the get_graph_state call: its queries still running, what each
                    \* returned, the GraphState built; history: the store states read

vars == <<now, db, writer, db_queue, db_rx, batch, worker, event_log,
          applied, dropped, lastFlush, purge, lastPurge, interval,
          subscriptions, added, conn, sub, disc, reqs, rooms, received,
          topic_channels, topic_tasks, egress, event_rx, pub,
          dashboard_enabled, cache, gets, calls, bus, ws_tasks, graph>>

cacheVars == <<dashboard_enabled, cache, gets, graph>>

sessVars == <<subscriptions, added, conn, sub, disc, reqs, rooms, received,
              topic_channels, topic_tasks, egress, event_rx>>
frontVars == <<sessVars, pub>>
\* the store and its two writers, without the queue's sending end
backVars == <<db, writer, db_rx, batch, worker, applied, dropped, lastFlush,
              purge, lastPurge, interval>>

batchVars == <<db_queue, db_rx, batch, worker, applied, dropped, lastFlush>>
purgeVars == <<purge, lastPurge, interval>>

(***************************************************************************)
(* Helpers on sequences.                                                   *)
(***************************************************************************)
Range(s) == {s[i] : i \in DOMAIN s}

Min(a, b) == IF a <= b THEN a ELSE b

(***************************************************************************)
(* The store.  messages and consumptions are tables with an AUTOINCREMENT  *)
(* id; subscriptions has sid as its primary key.                           *)
(***************************************************************************)
EmptyDb ==
    [messages      |-> {},
     consumptions  |-> {},
     subscriptions |-> {},
     msg_id        |-> 0,
     cons_id       |-> 0]

\* enum DbCommand, one record shape for the four kinds (unused fields are "").
\* seq is a history tag: the command's position in the send order.
DbCommand(kind, sid, consumer, topic, message_id, producer, timestamp) ==
    [kind |-> kind, sid |-> sid, consumer |-> consumer, topic |-> topic,
     message_id |-> message_id, producer |-> producer, timestamp |-> timestamp,
     seq |-> Len(db_queue) + 1]

\* struct BroadcastEvent
BroadcastEvent(event_type, consumer, topic, message_id, producer, timestamp) ==
    [event_type |-> event_type, consumer |-> consumer, topic |-> topic,
     message_id |-> message_id, producer |-> producer, timestamp |-> timestamp]

\* the row and the command have the same primary key in the subscriptions
\* table: `subscriptions(sid pk, consumer, topic, connected_at)`
SamePrimaryKey(r, cmd) == r.sid = cmd.sid

\* The SQL statement flush_batch runs for one command, on the store d.
ExecCommand(d, cmd) ==
    CASE cmd.kind = "RegisterSubscription" ->
            \* INSERT OR REPLACE INTO subscriptions: the row of the same
            \* primary key, if any, is replaced
            [d EXCEPT !.subscriptions =
                {r \in @ : ~ SamePrimaryKey(r, cmd)} \cup
                {[sid |-> cmd.sid, consumer |-> cmd.consumer, topic |-> cmd.topic,
                  connected_at |-> cmd.timestamp]}]
      [] cmd.kind = "SaveMessage" ->
            [d EXCEPT !.msg_id = @ + 1,
                      !.messages = @ \cup
                {[id |-> d.msg_id + 1, topic |-> cmd.topic,
                  message_id |-> cmd.message_id, producer |-> cmd.producer,
                  timestamp |-> cmd.timestamp, seq |-> cmd.seq]}]
      [] cmd.kind = "SaveConsumption" ->
            [d EXCEPT !.cons_id = @ + 1,
                      !.consumptions = @ \cup
                {[id |-> d.cons_id + 1, consumer |-> cmd.consumer, topic |-> cmd.topic,
                  message_id |-> cmd.message_id, timestamp |-> cmd.timestamp,
                  seq |-> cmd.seq]}]
      [] cmd.kind = "UnregisterClient" ->
            \* DELETE FROM subscriptions WHERE sid = ?
            [d EXCEPT !.subscriptions = {r \in @ : r.sid # cmd.sid}]

\* Faulty variant of db_tx_send: the sender waits while the store is busy
\* with a flush or a purge.
db_tx_send_waiting(cmd) ==
    /\ worker.pc = "select"
    /\ purge.pc = "idle"
    /\ db_queue' = Append(db_queue, cmd)

(***************************************************************************)
(* Broker facade: the operations that only send (no await inside).         *)
(***************************************************************************)
\* db_tx.send(cmd) on the unbounded channel
db_tx_send(cmd) == db_queue' = Append(db_queue, cmd)

\* Faulty variant of event_tx_send: the sender waits while a receiver has a
\* full channel of events to read.
event_tx_send_waiting(events) ==
    /\ bus.relay_rx > 0 => Len(event_log) - bus.relay_rx + 1 < BUS_CAPACITY
    /\ \A s \in DOMAIN event_rx :
          event_rx[s] > 0 => Len(event_log) - event_rx[s] + 1 < BUS_CAPACITY
    /\ event_log' = event_log \o events

\* event_tx.send(event) on the broadcast channel: the value is stored, the
\* oldest one is overwritten when the channel is full, and the call returns
event_tx_send(events) == event_log' = event_log \o events

\* the oldest event the channel still holds
Oldest == IF Len(event_log) > BUS_CAPACITY THEN Len(event_log) - BUS_CAPACITY + 1 ELSE 1

\* `event_rx.recv().await` returns Err(Lagged) for a receiver whose next
\* event was overwritten
Lagged(rx) == rx < Oldest

\* Faulty variant of save_message: the command is sent twice.
save_message_twice(topic, message_id, producer) ==
    /\ db_queue' = db_queue \o
          <<DbCommand("SaveMessage", "", "", topic, message_id, producer, now),
            DbCommand("SaveMessage", "", "", topic, message_id, producer, now)>>
    /\ event_tx_send(<<BroadcastEvent("new_message", "", topic, message_id, producer, now)>>)

\* Broker::save_message
save_message(topic, message_id, producer) ==
    /\ db_tx_send(DbCommand("SaveMessage", "", "", topic, message_id, producer, now))
    /\ event_tx_send(<<BroadcastEvent("new_message", "", topic, message_id, producer, now)>>)

\* Broker::save_consumption
save_consumption(consumer, topic, message_id) ==
    /\ db_tx_send(DbCommand("SaveConsumption", "", consumer, topic, message_id, "", now))
    /\ event_tx_send(<<BroadcastEvent("new_consumption", consumer, topic, message_id, "", now)>>)

(***************************************************************************)
(* The batch worker of Broker::new: select! over the 20 ms tick and the    *)
(* queue, and flush_batch step by step (begin, one statement per command,  *)
(* commit or rollback).                                                    *)
(***************************************************************************)
WorkerIdle == [pc |-> "select", has_error |-> FALSE, tx |-> EmptyDb, log |-> <<>>]

SeqsOf(cmds) == {cmds[i].seq : i \in DOMAIN cmds}

\* Faulty variant of WorkerTick: the tick flushes a full buffer only.
WorkerTick_only_when_full ==
    /\ worker.pc = "select"
    /\ Len(batch) >= BATCH_CAPACITY
    /\ worker' = [WorkerIdle EXCEPT !.pc = "begin"]
    /\ lastFlush' = [outcome |-> "running", before |-> db, cmds |-> SeqsOf(batch)]
    /\ UNCHANGED <<now, db, writer, db_queue, db_rx, batch, event_log, applied, dropped>>
    /\ UNCHANGED purgeVars
    /\ UNCHANGED frontVars
    /\ UNCHANGED <<cacheVars, calls, bus, ws_tasks>>

\* `_ = interval.tick() => if !batch.is_empty() { flush_batch }`; a tick on an
\* empty batch changes nothing.
WorkerTick ==
    /\ worker.pc = "select"
    /\ batch # <<>>
    /\ worker' = [WorkerIdle EXCEPT !.pc = "begin"]
    /\ lastFlush' = [outcome |-> "running", before |-> db, cmds |-> SeqsOf(batch)]
    /\ UNCHANGED <<now, db, writer, db_queue, db_rx, batch, event_log, applied, dropped>>
    /\ UNCHANGED purgeVars
    /\ UNCHANGED frontVars
    /\ UNCHANGED <<cacheVars, calls, bus, ws_tasks>>

\* Faulty variant of batch_push: the command goes to the front of the buffer.
batch_push_front(b, cmd) == <<cmd>> \o b

\* `batch.push(cmd)`
batch_push(b, cmd) == Append(b, cmd)

\* `Some(cmd) = db_rx.recv() => batch.push(cmd); if batch.len() >= 500 { flush_batch }`
WorkerRecv ==
    /\ worker.pc = "select"
    /\ db_rx < Len(db_queue)
    /\ db_queue[db_rx + 1].kind # "Closed"
    /\ db_rx' = db_rx + 1
    /\ batch' = batch_push(batch, db_queue[db_rx + 1])
    /\ IF Len(batch') >= BATCH_CAPACITY
       THEN /\ worker' = [WorkerIdle EXCEPT !.pc = "begin"]
            /\ lastFlush' = [outcome |-> "running", before |-> db, cmds |-> SeqsOf(batch')]
       ELSE UNCHANGED <<worker, lastFlush>>
    /\ UNCHANGED <<now, db, writer, db_queue, event_log, applied, dropped>>
    /\ UNCHANGED purgeVars
    /\ UNCHANGED frontVars
    /\ UNCHANGED <<cacheVars, calls, bus, ws_tasks>>

\* Faulty variant of FlushBegin: on Err the batch is kept for the next flush.
FlushBegin_keep_batch ==
    /\ worker.pc = "begin"
    /\ \E ok \in BOOLEAN :
          IF ok
          THEN /\ worker' = [worker EXCEPT !.pc = "drain"]
               /\ UNCHANGED <<batch, dropped, lastFlush>>
          ELSE /\ worker' = WorkerIdle
               /\ UNCHANGED <<batch, dropped>>
               /\ lastFlush' = [lastFlush EXCEPT !.outcome = "begin_failed"]
    /\ UNCHANGED <<now, db, writer, db_queue, db_rx, event_log, applied>>
    /\ UNCHANGED purgeVars
    /\ UNCHANGED frontVars
    /\ UNCHANGED <<cacheVars, calls, bus, ws_tasks>>

\* `db.begin().await`: Ok, or Err with `batch.clear(); return`
FlushBegin ==
    /\ worker.pc = "begin"
    /\ \E ok \in BOOLEAN :
          IF ok
          THEN /\ worker' = [worker EXCEPT !.pc = "drain"]
               /\ UNCHANGED <<batch, dropped, lastFlush>>
          ELSE /\ worker' = WorkerIdle
               /\ batch' = <<>>
               /\ dropped' = dropped \cup SeqsOf(batch)
               /\ lastFlush' = [lastFlush EXCEPT !.outcome = "begin_failed"]
    /\ UNCHANGED <<now, db, writer, db_queue, db_rx, event_log, applied>>
    /\ UNCHANGED purgeVars
    /\ UNCHANGED frontVars
    /\ UNCHANGED <<cacheVars, calls, bus, ws_tasks>>

\* Faulty variant of FlushExec: the statement writes to the store without
\* waiting for the write lock.
FlushExec_without_lock ==
    /\ worker.pc = "drain"
    /\ batch # <<>>
    /\ LET cmd  == Head(batch)
           base == IF worker.log # <<>> THEN worker.tx ELSE db
       IN  \/ /\ writer' = "batch"
               /\ worker' = [worker EXCEPT !.tx = ExecCommand(base, cmd),
                                           !.log = Append(@, cmd.seq)]
               /\ batch' = Tail(batch)
               /\ UNCHANGED dropped
           \/ /\ worker' = [worker EXCEPT !.has_error = TRUE]
               /\ batch' = <<>>
               /\ dropped' = dropped \cup SeqsOf(batch) \cup Range(worker.log)
               /\ UNCHANGED writer
    /\ UNCHANGED <<now, db, db_queue, db_rx, event_log, applied, lastFlush>>
    /\ UNCHANGED purgeVars
    /\ UNCHANGED frontVars
    /\ UNCHANGED <<cacheVars, calls, bus, ws_tasks>>

\* one turn of `for cmd in batch.drain(..)`: the statement succeeds on the
\* transaction's copy, or fails (`has_error = true; break`, and the drain
\* dropped with the rest of the batch).  The first statement takes the write lock.
FlushExec ==
    /\ worker.pc = "drain"
    /\ batch # <<>>
    /\ LET cmd  == Head(batch)
           base == IF writer = "batch" THEN worker.tx ELSE db
       IN  \/ /\ writer \in {"none", "batch"}
               /\ writer' = "batch"
               /\ worker' = [worker EXCEPT !.tx = ExecCommand(base, cmd),
                                           !.log = Append(@, cmd.seq)]
               /\ batch' = Tail(batch)
               /\ UNCHANGED dropped
           \/ /\ worker' = [worker EXCEPT !.has_error = TRUE]
               /\ batch' = <<>>
               /\ dropped' = dropped \cup SeqsOf(batch) \cup Range(worker.log)
               /\ UNCHANGED writer
    /\ UNCHANGED <<now, db, db_queue, db_rx, event_log, applied, lastFlush>>
    /\ UNCHANGED purgeVars
    /\ UNCHANGED frontVars
    /\ UNCHANGED <<cacheVars, calls, bus, ws_tasks>>

\* Faulty variant of FlushEnd: the transaction is committed whether or not a
\* statement failed.
FlushEnd_commit_anyway ==
    /\ worker.pc = "drain"
    /\ batch = <<>>
    /\ db' = IF writer = "batch" THEN worker.tx ELSE db
    /\ applied' = applied \o
          [i \in DOMAIN worker.log |-> [seq |-> worker.log[i], at |-> now]]
    /\ lastFlush' = [lastFlush EXCEPT !.outcome =
                        IF worker.has_error THEN "rolled_back" ELSE "committed"]
    /\ UNCHANGED dropped
    /\ writer' = IF writer = "batch" THEN "none" ELSE writer
    /\ worker' = WorkerIdle
    /\ UNCHANGED <<now, db_queue, db_rx, batch, event_log>>
    /\ UNCHANGED purgeVars
    /\ UNCHANGED frontVars
    /\ UNCHANGED <<cacheVars, calls, bus, ws_tasks>>

\* `if has_error { tx.rollback() } else if let Err(e) = tx.commit() { .. }`
FlushEnd ==
    /\ worker.pc = "drain"
    /\ batch = <<>>
    /\ IF worker.has_error
       THEN /\ UNCHANGED <<db, applied, dropped>>
            /\ lastFlush' = [lastFlush EXCEPT !.outcome = "rolled_back"]
       ELSE \E ok \in BOOLEAN :
              IF ok
              THEN /\ db' = worker.tx
                   /\ applied' = applied \o
                         [i \in DOMAIN worker.log |-> [seq |-> worker.log[i], at |-> now]]
                   /\ lastFlush' = [lastFlush EXCEPT !.outcome = "committed"]
                   /\ UNCHANGED dropped
              ELSE /\ dropped' = dropped \cup Range(worker.log)
                   /\ lastFlush' = [lastFlush EXCEPT !.outcome = "commit_failed"]
                   /\ UNCHANGED <<db, applied>>
    /\ writer' = IF writer = "batch" THEN "none" ELSE writer
    /\ worker' = WorkerIdle
    /\ UNCHANGED <<now, db_queue, db_rx, batch, event_log>>
    /\ UNCHANGED purgeVars
    /\ UNCHANGED frontVars
    /\ UNCHANGED <<cacheVars, calls, bus, ws_tasks>>

(***************************************************************************)
(* The purge worker of Broker::new and purge_old_data, step by step.       *)
(***************************************************************************)
PurgeIdle == [pc |-> "idle", cutoff |-> 0, tx |-> EmptyDb]

\* `SELECT id FROM t ORDER BY timestamp DESC LIMIT n`: the n newest rows; SQL
\* leaves the choice among rows of equal timestamp open.
NewestRows(rows, n) ==
    {K \in SUBSET rows :
        /\ Cardinality(K) = Min(n, Cardinality(rows))
        /\ \A k \in K, r \in rows \ K : k.timestamp >= r.timestamp}

\* Faulty variant of PurgeTable: AND in the place of OR.
PurgeTable_and(rows, newest, cutoff) ==
    {r \in rows : ~ (r \notin newest /\ r.timestamp < cutoff)}

\* `DELETE FROM t WHERE id NOT IN (<newest n>) OR timestamp < cutoff`,
\* given the rows the subquery selected: what is left of the table.
PurgeTable(rows, newest, cutoff) ==
    {r \in rows : ~ (r \notin newest \/ r.timestamp < cutoff)}

\* `tokio::time::interval(period)` created at time start: the first tick
\* completes at once
IntervalNew(start) == [next |-> start, ticks |-> 0]

\* a tick is due (a tick that was missed completes at once: the default
\* MissedTickBehavior::Burst)
TickDue == now >= interval.next

\* `interval.tick().await` has completed: the next one is due a period after
\* this one was
IntervalTick == [next |-> interval.next + PURGE_INTERVAL, ticks |-> interval.ticks + 1]

\* Faulty variant of PurgeFirstTick: the first tick is not waited for, the
\* loop's first tick is the one that completes at once.
PurgeFirstTick_not_consumed ==
    /\ interval.ticks = 0
    /\ interval' = [interval EXCEPT !.ticks = 1]
    /\ UNCHANGED <<purge, lastPurge>>
    /\ UNCHANGED <<now, db, writer, event_log>>
    /\ UNCHANGED batchVars
    /\ UNCHANGED frontVars
    /\ UNCHANGED <<cacheVars, calls, bus, ws_tasks>>

\* the purge worker before its loop: `interval.tick().await`, the tick that
\* completes at once
PurgeFirstTick ==
    /\ interval.ticks = 0
    /\ TickDue
    /\ interval' = IntervalTick
    /\ UNCHANGED <<purge, lastPurge>>
    /\ UNCHANGED <<now, db, writer, event_log>>
    /\ UNCHANGED batchVars
    /\ UNCHANGED frontVars
    /\ UNCHANGED <<cacheVars, calls, bus, ws_tasks>>

\* `interval.tick().await; purge_old_data(..)`: the sweep starts and reads
\* the clock; n is history, the number of sweeps started
PurgeStart ==
    /\ purge.pc = "idle"
    /\ interval.ticks > 0
    /\ TickDue
    /\ interval' = IntervalTick
    /\ purge' = [PurgeIdle EXCEPT !.pc = "begin", !.cutoff = now - MAX_AGE]
    /\ lastPurge' = [outcome |-> "running", cutoff |-> now - MAX_AGE, before |-> db,
                     n |-> lastPurge.n + 1]
    /\ UNCHANGED <<now, db, writer, event_log>>
    /\ UNCHANGED batchVars
    /\ UNCHANGED frontVars
    /\ UNCHANGED <<cacheVars, calls, bus, ws_tasks>>

\* `db.begin().await`
PurgeBegin ==
    /\ purge.pc = "begin"
    /\ \E ok \in BOOLEAN :
          IF ok
          THEN /\ purge' = [purge EXCEPT !.pc = "messages"]
               /\ UNCHANGED lastPurge
          ELSE /\ purge' = PurgeIdle
               /\ lastPurge' = [lastPurge EXCEPT !.outcome = "begin_failed"]
    /\ UNCHANGED <<now, db, writer, event_log>>
    /\ UNCHANGED interval
    /\ UNCHANGED batchVars
    /\ UNCHANGED frontVars
    /\ UNCHANGED <<cacheVars, calls, bus, ws_tasks>>

\* the DELETE on messages: Ok, or Err with `tx.rollback(); return`
PurgeMessages ==
    /\ purge.pc = "messages"
    /\ \/ /\ writer = "none"
          /\ writer' = "purge"
          /\ \E newest \in NewestRows(db.messages, MAX_MESSAGES) :
                purge' = [purge EXCEPT
                    !.pc = "consumptions",
                    !.tx = [db EXCEPT !.messages = PurgeTable(@, newest, purge.cutoff)]]
          /\ UNCHANGED lastPurge
       \/ /\ purge' = PurgeIdle
          /\ lastPurge' = [lastPurge EXCEPT !.outcome = "rolled_back"]
          /\ UNCHANGED writer
    /\ UNCHANGED <<now, db, event_log>>
    /\ UNCHANGED interval
    /\ UNCHANGED batchVars
    /\ UNCHANGED frontVars
    /\ UNCHANGED <<cacheVars, calls, bus, ws_tasks>>

\* Faulty variant of PurgeConsumptions: on Err the transaction is committed
\* with the messages already deleted.
PurgeConsumptions_commit_on_error ==
    /\ purge.pc = "consumptions"
    /\ \/ /\ \E newest \in NewestRows(purge.tx.consumptions, MAX_CONSUMPTIONS) :
                purge' = [purge EXCEPT
                    !.pc = "commit",
                    !.tx.consumptions = PurgeTable(@, newest, purge.cutoff)]
          /\ UNCHANGED <<db, writer, lastPurge>>
       \/ /\ purge' = PurgeIdle
          /\ writer' = "none"
          /\ db' = purge.tx
          /\ lastPurge' = [lastPurge EXCEPT !.outcome = "rolled_back"]
    /\ UNCHANGED <<now, event_log>>
    /\ UNCHANGED interval
    /\ UNCHANGED batchVars
    /\ UNCHANGED frontVars
    /\ UNCHANGED <<cacheVars, calls, bus, ws_tasks>>

\* the DELETE on consumptions: Ok, or Err with `tx.rollback(); return`
PurgeConsumptions ==
    /\ purge.pc = "consumptions"
    /\ \/ /\ \E newest \in NewestRows(purge.tx.consumptions, MAX_CONSUMPTIONS) :
                purge' = [purge EXCEPT
                    !.pc = "commit",
                    !.tx.consumptions = PurgeTable(@, newest, purge.cutoff)]
          /\ UNCHANGED <<writer, lastPurge>>
       \/ /\ purge' = PurgeIdle
          /\ writer' = "none"
          /\ lastPurge' = [lastPurge EXCEPT !.outcome = "rolled_back"]
    /\ UNCHANGED <<now, db, event_log>>
    /\ UNCHANGED interval
    /\ UNCHANGED batchVars
    /\ UNCHANGED frontVars
    /\ UNCHANGED <<cacheVars, calls, bus, ws_tasks>>

\* `tx.commit().await`
PurgeCommit ==
    /\ purge.pc = "commit"
    /\ \E ok \in BOOLEAN :
          IF ok
          THEN /\ db' = purge.tx
               /\ lastPurge' = [lastPurge EXCEPT !.outcome = "committed"]
          ELSE /\ UNCHANGED db
               /\ lastPurge' = [lastPurge EXCEPT !.outcome = "commit_failed"]
    /\ purge' = PurgeIdle
    /\ writer' = "none"
    /\ UNCHANGED <<now, event_log>>
    /\ UNCHANGED interval
    /\ UNCHANGED batchVars
    /\ UNCHANGED frontVars
    /\ UNCHANGED <<cacheVars, calls, bus, ws_tasks>>

(***************************************************************************)
(* The subscription registry and the operations of the broker facade that  *)
(* await its lock.  Each access to shared state between two awaits is one  *)
(* step: on the multi-threaded runtime other tasks run in between.         *)
(***************************************************************************)
\* Faulty variant of RegistryAdd: the topic is pushed without the
\* `contains` test.
RegistryAdd_push(subs, sid, consumer, topic, connected_at) ==
    IF sid \in DOMAIN subs
    THEN [subs EXCEPT ![sid].topics = Append(@, topic)]
    ELSE [k \in DOMAIN subs \cup {sid} |->
            IF k = sid
            THEN [consumer |-> consumer, topics |-> <<topic>>,
                  connected_at |-> connected_at]
            ELSE subs[k]]

\* `subs.entry(sid).and_modify(push unless contained).or_insert(..)`
RegistryAdd(subs, sid, consumer, topic, connected_at) ==
    IF sid \in DOMAIN subs
    THEN [subs EXCEPT ![sid].topics =
            IF topic \in Range(@) THEN @ ELSE Append(@, topic)]
    ELSE [k \in DOMAIN subs \cup {sid} |->
            IF k = sid
            THEN [consumer |-> consumer, topics |-> <<topic>>,
                  connected_at |-> connected_at]
            ELSE subs[k]]

\* `subs.remove(sid)`
RegistryRemove(subs, sid) == [k \in DOMAIN subs \ {sid} |-> subs[k]]

\* Broker::get_client_by_sid: `subs.get(sid).cloned()`, None as the empty sequence
get_client_by_sid(sid) ==
    IF sid \in DOMAIN subscriptions THEN <<subscriptions[sid]>> ELSE <<>>

\* Broker::get_clients: one row per (session, topic); sid is a history tag,
\* ClientInfo does not carry it
get_clients ==
    UNION {{[sid |-> k, consumer |-> subscriptions[k].consumer,
             topic |-> subscriptions[k].topics[i],
             connected_at |-> subscriptions[k].connected_at] :
               i \in DOMAIN subscriptions[k].topics} : k \in DOMAIN subscriptions}

SubIdle  == [pc |-> "idle", consumer |-> "", topics |-> <<>>, connected_at |-> 0]
\* removed is history: the registry entry the handler's remove took away
DiscIdle == [pc |-> "idle", client_info |-> <<>>, removed |-> <<>>]

\* the topic lists a subscribe request may carry: one topic, the wildcard,
\* a topic twice, two topics, the wildcard before and after a topic
TopicLists ==
    {<<t>> : t \in Topics \cup {Wildcard}} \cup
    {<<"T", "T">>, <<"T", "T2">>, <<Wildcard, "T">>, <<"T", Wildcard>>}

\* history: how many subscribe requests the sessions have sent
SubsSent == Cardinality({<<s, i>> \in Sids \X (1 .. MaxSubs) : i <= Len(reqs[s])})

\* a client connects: `io.ns("/", ..)` / `ws.on_upgrade(handle_socket)`, where
\* `state.broker.event_tx.subscribe()` gives the session a receiver of the
\* events sent from now on
Connect(s) ==
    /\ conn[s] = "new"
    /\ conn' = [conn EXCEPT ![s] = "open"]
    /\ event_rx' = [w \in WsSids |-> IF w = s THEN Len(event_log) + 1 ELSE event_rx[w]]
    /\ ws_tasks' = [w \in WsSids |->
            IF w = s THEN [ws_tasks[w] EXCEPT !.send = "running"] ELSE ws_tasks[w]]
    /\ UNCHANGED <<subscriptions, added, sub, disc, reqs, rooms, received,
                   topic_channels, topic_tasks, egress, pub>>
    /\ UNCHANGED <<now, db_queue, event_log>>
    /\ UNCHANGED backVars
    /\ UNCHANGED <<cacheVars, calls, bus>>

\* a "subscribe" event arrives and its handler starts: `for topic in &data.topics`
SubscribeRequest(s) ==
    /\ conn[s] = "open"
    /\ sub[s].pc = "idle"
    /\ disc[s].pc = "idle"
    /\ SubsSent < MaxSubs
    /\ \E c \in Consumers, ts \in TopicLists :
          /\ sub' = [sub EXCEPT ![s] = [SubIdle EXCEPT !.pc = "register",
                                                       !.consumer = c, !.topics = ts]]
          /\ reqs' = [reqs EXCEPT ![s] = Append(@, ts)]
    /\ UNCHANGED <<subscriptions, added, conn, disc, rooms, received,
                   topic_channels, topic_tasks, egress, event_rx, pub>>
    /\ UNCHANGED <<now, db_queue, event_log>>
    /\ UNCHANGED backVars
    /\ UNCHANGED <<cacheVars, calls, bus, ws_tasks>>

\* Faulty variant of MissingParameter: the consumer is not looked at.
MissingParameter_no_consumer(sid, consumer, topic) == sid = "" \/ topic = ""

\* `sid.is_empty() || consumer.is_empty() || topic.is_empty()`
MissingParameter(sid, consumer, topic) == sid = "" \/ consumer = "" \/ topic = ""

\* Broker::register_subscription, to its first await: the check of the
\* arguments, the timestamp and `db_tx.send(RegisterSubscription)`
RegisterSend(s) ==
    /\ sub[s].pc = "register"
    /\ LET c == sub[s].consumer
           t == Head(sub[s].topics)
       IN  IF MissingParameter(s, c, t)
           THEN /\ sub' = [sub EXCEPT ![s].pc = "attach"]
                /\ UNCHANGED db_queue
           ELSE /\ db_tx_send(DbCommand("RegisterSubscription", s, c, t, "", "", now))
                /\ sub' = [sub EXCEPT ![s].pc = "write", ![s].connected_at = now]
    /\ UNCHANGED <<subscriptions, added, conn, disc, reqs, rooms, received,
                   topic_channels, topic_tasks, egress, event_rx, pub>>
    /\ UNCHANGED <<now, event_log>>
    /\ UNCHANGED backVars
    /\ UNCHANGED <<cacheVars, calls, bus, ws_tasks>>

\* Broker::register_subscription, under `self.subscriptions.write().await`
RegisterWrite(s) ==
    /\ sub[s].pc = "write"
    /\ subscriptions' = RegistryAdd(subscriptions, s, sub[s].consumer,
                                    Head(sub[s].topics), sub[s].connected_at)
    /\ added' = [added EXCEPT ![s] = Append(@, Head(sub[s].topics))]
    /\ sub' = [sub EXCEPT ![s].pc = "emit"]
    /\ UNCHANGED <<conn, disc, reqs, rooms, received,
                   topic_channels, topic_tasks, egress, event_rx, pub>>
    /\ UNCHANGED <<now, db_queue, event_log>>
    /\ UNCHANGED backVars
    /\ UNCHANGED <<cacheVars, calls, bus, ws_tasks>>

\* Broker::register_subscription: `event_tx.send(new_client)`
RegisterEmit(s) ==
    /\ sub[s].pc = "emit"
    /\ event_tx_send(<<BroadcastEvent("new_client", sub[s].consumer,
                                       Head(sub[s].topics), "", "", sub[s].connected_at)>>)
    /\ sub' = [sub EXCEPT ![s].pc = "attach"]
    /\ UNCHANGED <<subscriptions, added, conn, disc, reqs, rooms, received,
                   topic_channels, topic_tasks, egress, event_rx, pub>>
    /\ UNCHANGED <<now, db_queue>>
    /\ UNCHANGED backVars
    /\ UNCHANGED <<cacheVars, calls, bus, ws_tasks>>

\* the handler goes on to the next topic of the request, or ends
NextTopic(h) ==
    IF Tail(h.topics) = <<>>
    THEN SubIdle
    ELSE [h EXCEPT !.pc = "register", !.topics = Tail(@)]

\* Faulty variant of JoinRooms: the wildcard is joined as a room of its own name.
JoinRooms_wildcard_as_topic(rs, topic) == rs \cup {topic}

\* the rooms of a socket after the subscribe handler's join for `topic`:
\* `if topic == "*" { leave_all(); join("__all__") } else { join(topic) }`
JoinRooms(rs, topic) ==
    IF topic = Wildcard THEN {AllRoom} ELSE rs \cup {topic}

\* Socket.IO subscribe handler, after register_subscription: the join
SioJoin(s) ==
    /\ s \in SioSids
    /\ sub[s].pc = "attach"
    /\ rooms' = [rooms EXCEPT ![s] = JoinRooms(@, Head(sub[s].topics))]
    /\ sub' = [sub EXCEPT ![s] = NextTopic(@)]
    /\ UNCHANGED <<subscriptions, added, conn, disc, reqs, received,
                   topic_channels, topic_tasks, egress, event_rx, pub>>
    /\ UNCHANGED <<now, db_queue, event_log>>
    /\ UNCHANGED backVars
    /\ UNCHANGED <<cacheVars, calls, bus, ws_tasks>>

\* how many strings were sent on the topic channels
TopicSent ==
    LET RECURSIVE Sum(_)
        Sum(S) == IF S = {} THEN 0
                  ELSE LET t == CHOOSE x \in S : TRUE
                       IN  Len(topic_channels[t]) + Sum(S \ {t})
    IN  Sum(DOMAIN topic_channels)

\* `channels.entry(topic).or_insert_with(|| broadcast::channel(1000).0)`
TopicChannel(channels, topic) ==
    IF topic \in DOMAIN channels
    THEN channels
    ELSE [k \in DOMAIN channels \cup {topic} |->
            IF k = topic THEN <<>> ELSE channels[k]]

\* a follower task just spawned; next is the string its receiver reads next.
\* History: lagged counts the lags it was signalled, lag_at is how many
\* strings had been sent at the last lag, resumed is where it started or went
\* on after the last lag, forwarded the strings it pushed.
Follower(t, start) ==
    [topic |-> t, next |-> start, aborted |-> FALSE, exited |-> FALSE,
     lagged |-> 0, lag_at |-> 0, resumed |-> start, forwarded |-> <<>>]

\* WebSocket subscribe, after register_subscription: the topic's sender is
\* looked up or created under the write lock, `tx.subscribe()` gives a receiver
\* that sees what is sent from now on, and the follower task is spawned and
\* pushed on topic_tasks.
WsAttach(s) ==
    /\ s \in WsSids
    /\ sub[s].pc = "attach"
    /\ LET t  == Head(sub[s].topics)
           ch == TopicChannel(topic_channels, t)
       IN  /\ topic_channels' = ch
           /\ topic_tasks' = [topic_tasks EXCEPT ![s] =
                 Append(@, Follower(t, Len(ch[t]) + 1))]
    /\ sub' = [sub EXCEPT ![s] = NextTopic(@)]
    /\ UNCHANGED <<subscriptions, added, conn, disc, reqs, rooms, received, egress, event_rx, pub>>
    /\ UNCHANGED <<now, db_queue, event_log>>
    /\ UNCHANGED backVars
    /\ UNCHANGED <<cacheVars, calls, bus, ws_tasks>>

\* The client goes away.  Socket.IO: the socket leaves its rooms and the
\* on_disconnect handler is spawned, whatever handler is still running.
\* WebSocket: the ingress loop, which runs the subscribe handling inline,
\* sees the read side closed and falls through to the cleanup.
Disconnect(s) ==
    /\ conn[s] = "open"
    /\ disc[s].pc = "idle"
    /\ s \in WsSids => sub[s].pc = "idle"
    /\ conn' = [conn EXCEPT ![s] = "closed"]
    /\ disc' = [disc EXCEPT ![s].pc = "unregister"]
    /\ rooms' = [r \in SioSids |-> IF r = s THEN {} ELSE rooms[r]]
    /\ UNCHANGED <<subscriptions, added, sub, reqs, received,
                   topic_channels, topic_tasks, egress, event_rx, pub>>
    /\ UNCHANGED <<now, db_queue, event_log>>
    /\ UNCHANGED backVars
    /\ UNCHANGED <<cacheVars, calls, bus, ws_tasks>>

\* Broker::unregister_client: `get_client_by_sid(sid).await` and
\* `db_tx.send(UnregisterClient)`
UnregisterSend(s) ==
    /\ disc[s].pc = "unregister"
    /\ disc' = [disc EXCEPT ![s].pc = "remove", ![s].client_info = get_client_by_sid(s)]
    /\ db_tx_send(DbCommand("UnregisterClient", s, "", "", "", "", 0))
    /\ UNCHANGED <<subscriptions, added, conn, sub, reqs, rooms, received,
                   topic_channels, topic_tasks, egress, event_rx, pub>>
    /\ UNCHANGED <<now, event_log>>
    /\ UNCHANGED backVars
    /\ UNCHANGED <<cacheVars, calls, bus, ws_tasks>>

\* Broker::unregister_client, under `self.subscriptions.write().await`
UnregisterRemove(s) ==
    /\ disc[s].pc = "remove"
    /\ subscriptions' = RegistryRemove(subscriptions, s)
    /\ added' = [added EXCEPT ![s] = <<>>]
    /\ disc' = [disc EXCEPT ![s].pc = "emit", ![s].removed = get_client_by_sid(s)]
    /\ UNCHANGED <<conn, sub, reqs, rooms, received,
                   topic_channels, topic_tasks, egress, event_rx, pub>>
    /\ UNCHANGED <<now, db_queue, event_log>>
    /\ UNCHANGED backVars
    /\ UNCHANGED <<cacheVars, calls, bus, ws_tasks>>

\* Faulty variant of DisconnectEvents: an event is emitted for no snapshot too.
DisconnectEvents_unconditional(client_info) ==
    IF client_info = <<>>
    THEN <<BroadcastEvent("client_disconnected", "", "", "", "", 0)>>
    ELSE [i \in DOMAIN client_info[1].topics |->
            BroadcastEvent("client_disconnected", client_info[1].consumer,
                           client_info[1].topics[i], "", "", 0)]

\* the client_disconnected events of one snapshot, one per topic
DisconnectEvents(client_info) ==
    IF client_info = <<>>
    THEN <<>>
    ELSE [i \in DOMAIN client_info[1].topics |->
            BroadcastEvent("client_disconnected", client_info[1].consumer,
                           client_info[1].topics[i], "", "", 0)]

\* Broker::unregister_client: `for topic in topics { event_tx.send(..) }`
UnregisterEmit(s) ==
    /\ disc[s].pc = "emit"
    /\ event_tx_send(DisconnectEvents(disc[s].client_info))
    /\ disc' = [disc EXCEPT ![s].pc = IF s \in WsSids THEN "abort" ELSE "done"]
    /\ UNCHANGED <<subscriptions, added, conn, sub, reqs, rooms, received,
                   topic_channels, topic_tasks, egress, event_rx, pub>>
    /\ UNCHANGED <<now, db_queue>>
    /\ UNCHANGED backVars
    /\ UNCHANGED <<cacheVars, calls, bus, ws_tasks>>

\* the JoinHandles of a session: broadcast_task, send_task and the k-th
\* handle of the topic_tasks list
RelayTask == <<"broadcast_task", 0>>
SendTask == <<"send_task", 0>>
FollowerTask(k) == <<"topic_task", k>>

\* the receiving end of a session's egress channel is gone: send_task, which
\* owns internal_rx, is over
EgressClosed(s) == ws_tasks[s].send \in {"ended", "aborted"}

\* send_task of handle_socket: `while let Some(msg) = internal_rx.recv().await`
\* and `ws_sender.send(Message::Text(msg))`, Ok or Err with `break`
WsSend(s) ==
    /\ s \in WsSids
    /\ ws_tasks[s].send = "running"
    /\ ws_tasks[s].sent < Len(egress[s])
    /\ \E ok \in BOOLEAN :
          ws_tasks' = [ws_tasks EXCEPT
              ![s].sent = @ + 1,
              ![s].send = IF ok THEN @ ELSE "ended",
              ![s].cancelling = IF ok THEN @ ELSE @ \ {SendTask}]
    /\ UNCHANGED <<subscriptions, added, conn, sub, disc, reqs, rooms, received,
                   topic_channels, topic_tasks, egress, event_rx, pub>>
    /\ UNCHANGED <<now, db_queue, event_log>>
    /\ UNCHANGED backVars
    /\ UNCHANGED <<cacheVars, calls, bus>>

\* broadcast_task of handle_socket: `while let Ok(event) = event_rx.recv().await`,
\* the event serialised and pushed on internal_tx; enabled is a history tag,
\* the dashboard flag at the time of the relay, which the task does not read
WsBroadcast(s) ==
    /\ s \in WsSids
    /\ event_rx[s] > 0
    /\ event_rx[s] <= Len(event_log)
    /\ IF Lagged(event_rx[s])
       THEN \* `while let Ok(..)`: the loop, and the task, end on Err(Lagged)
            /\ event_rx' = [event_rx EXCEPT ![s] = 0]
            /\ bus' = [bus EXCEPT !.lagged = @ \cup {s}]
            /\ ws_tasks' = [ws_tasks EXCEPT ![s].cancelling = @ \ {RelayTask}]
            /\ UNCHANGED egress
       ELSE IF EgressClosed(s)
       THEN \* `internal_tx_clone.send(msg).is_err()`: break
            /\ event_rx' = [event_rx EXCEPT ![s] = 0]
            /\ ws_tasks' = [ws_tasks EXCEPT ![s].cancelling = @ \ {RelayTask}]
            /\ UNCHANGED <<egress, bus>>
       ELSE /\ egress' = [egress EXCEPT ![s] =
                    Append(@, [frame |-> "event", event |-> event_log[event_rx[s]],
                               enabled |-> dashboard_enabled])]
            /\ event_rx' = [event_rx EXCEPT ![s] = @ + 1]
            /\ UNCHANGED <<bus, ws_tasks>>
    /\ UNCHANGED <<subscriptions, added, conn, sub, disc, reqs, rooms, received,
                   topic_channels, topic_tasks, pub>>
    /\ UNCHANGED <<now, db_queue, event_log>>
    /\ UNCHANGED backVars
    /\ UNCHANGED <<cacheVars, calls>>

\* the relay task of main: `while let Ok(event) = event_rx.recv().await`, and
\* `ns.emit(event.event_type, &event.data)` if dashboard_enabled is set
RelayRecv ==
    /\ bus.relay_rx > 0
    /\ bus.relay_rx <= Len(event_log)
    /\ IF Lagged(bus.relay_rx)
       THEN bus' = [bus EXCEPT !.relay_rx = 0, !.lagged = @ \cup {"relay"}]
       ELSE bus' = [bus EXCEPT
                !.relay_rx = @ + 1,
                !.relayed = IF dashboard_enabled
                            THEN Append(@, event_log[bus.relay_rx])
                            ELSE @]
    /\ UNCHANGED <<now, db_queue, event_log>>
    /\ UNCHANGED frontVars
    /\ UNCHANGED backVars
    /\ UNCHANGED <<cacheVars, calls, ws_tasks>>

\* the oldest string a topic's channel still holds
OldestOf(t) ==
    IF Len(topic_channels[t]) > TOPIC_CAPACITY
    THEN Len(topic_channels[t]) - TOPIC_CAPACITY + 1
    ELSE 1

\* A send on the sender of a topic.  AppState holds the senders for whoever
\* has the state; no handler of the program sends on one, so the step
\* belongs only to the specifications that follow a topic-follower task
\* through what its receiver may return.
TopicSend(t) ==
    /\ t \in DOMAIN topic_channels
    /\ TopicSent < MaxTopicSends
    /\ topic_channels' = [topic_channels EXCEPT ![t] = Append(@, Len(@) + 1)]
    /\ UNCHANGED <<subscriptions, added, conn, sub, disc, reqs, rooms, received,
                   topic_tasks, egress, event_rx, pub>>
    /\ UNCHANGED <<now, db_queue, event_log>>
    /\ UNCHANGED backVars
    /\ UNCHANGED <<cacheVars, calls, bus, ws_tasks>>

\* Faulty variant of FollowerForward: the loop ends on Err(Lagged), as a
\* `while let Ok(..)` loop does.
FollowerForward_exit_on_lag(s) ==
    /\ s \in WsSids
    /\ \E k \in DOMAIN topic_tasks[s] :
          LET task == topic_tasks[s][k]
          IN  /\ ~ task.aborted /\ ~ task.exited
              /\ task.next <= Len(topic_channels[task.topic])
              /\ IF task.next < OldestOf(task.topic)
                 THEN /\ topic_tasks' = [topic_tasks EXCEPT
                            ![s][k].exited = TRUE,
                            ![s][k].lag_at = Len(topic_channels[task.topic]),
                            ![s][k].lagged = @ + 1]
                      /\ ws_tasks' = [ws_tasks EXCEPT ![s].cancelling = @ \ {FollowerTask(k)}]
                      /\ UNCHANGED egress
                 ELSE IF EgressClosed(s)
                 THEN /\ topic_tasks' = [topic_tasks EXCEPT ![s][k].exited = TRUE]
                      /\ ws_tasks' = [ws_tasks EXCEPT ![s].cancelling = @ \ {FollowerTask(k)}]
                      /\ UNCHANGED egress
                 ELSE /\ egress' = [egress EXCEPT ![s] =
                            Append(@, [frame |-> "topic", topic |-> task.topic,
                                       payload |-> topic_channels[task.topic][task.next]])]
                      /\ topic_tasks' = [topic_tasks EXCEPT
                            ![s][k].next = @ + 1,
                            ![s][k].forwarded = Append(@, task.next)]
                      /\ UNCHANGED ws_tasks
    /\ UNCHANGED <<subscriptions, added, conn, sub, disc, reqs, rooms, received,
                   topic_channels, event_rx, pub>>
    /\ UNCHANGED <<now, db_queue, event_log>>
    /\ UNCHANGED backVars
    /\ UNCHANGED <<cacheVars, calls, bus>>

\* a topic-follower task of handle_socket, one turn of its loop on a result
\* of `rx.recv().await`: Err(Lagged(n)) is logged, the receiver goes on from
\* the oldest string the channel holds and the loop continues; Ok(msg) is
\* pushed with `internal_tx_for_topic.send(msg)`, and the loop breaks if the
\* push fails.  Err(Closed) needs the sender dropped, and topic_channels
\* keeps every sender.  No operation of the program sends on a sender of
\* topic_channels: in a specification without TopicSend the step is never
\* enabled.
FollowerForward(s) ==
    /\ s \in WsSids
    /\ \E k \in DOMAIN topic_tasks[s] :
          LET task == topic_tasks[s][k]
          IN  /\ ~ task.aborted /\ ~ task.exited
              /\ task.next <= Len(topic_channels[task.topic])
              /\ IF task.next < OldestOf(task.topic)
                 THEN /\ topic_tasks' = [topic_tasks EXCEPT
                            ![s][k].next = OldestOf(task.topic),
                            ![s][k].resumed = OldestOf(task.topic),
                            ![s][k].lag_at = Len(topic_channels[task.topic]),
                            ![s][k].lagged = @ + 1]
                      /\ UNCHANGED <<egress, ws_tasks>>
                 ELSE IF EgressClosed(s)
                 THEN /\ topic_tasks' = [topic_tasks EXCEPT ![s][k].exited = TRUE]
                      /\ ws_tasks' = [ws_tasks EXCEPT ![s].cancelling = @ \ {FollowerTask(k)}]
                      /\ UNCHANGED egress
                 ELSE /\ egress' = [egress EXCEPT ![s] =
                            Append(@, [frame |-> "topic", topic |-> task.topic,
                                       payload |-> topic_channels[task.topic][task.next]])]
                      /\ topic_tasks' = [topic_tasks EXCEPT
                            ![s][k].next = @ + 1,
                            ![s][k].forwarded = Append(@, task.next)]
                      /\ UNCHANGED ws_tasks
    /\ UNCHANGED <<subscriptions, added, conn, sub, disc, reqs, rooms, received,
                   topic_channels, event_rx, pub>>
    /\ UNCHANGED <<now, db_queue, event_log>>
    /\ UNCHANGED backVars
    /\ UNCHANGED <<cacheVars, calls, bus>>

\* Faulty variant of LiveTasks: the topic followers are left out.
LiveTasks_without_followers(s) ==
    (IF event_rx[s] > 0 THEN {RelayTask} ELSE {}) \cup
    (IF ws_tasks[s].send = "running" THEN {SendTask} ELSE {})

\* the tasks of a session that have not finished: broadcast_task, send_task
\* and the followers of the topic_tasks list.  `abort()` on a finished task
\* does nothing.
LiveTasks(s) ==
    (IF event_rx[s] > 0 THEN {RelayTask} ELSE {}) \cup
    (IF ws_tasks[s].send = "running" THEN {SendTask} ELSE {}) \cup
    {FollowerTask(k) : k \in {i \in DOMAIN topic_tasks[s] :
        ~ topic_tasks[s][i].aborted /\ ~ topic_tasks[s][i].exited}}

\* Faulty variant of AbortAll: the followers of the topic_tasks list are not
\* aborted.
AbortAll_without_followers(s) == LiveTasks(s) \cap {RelayTask, SendTask}

\* Faulty variant of AbortAll: send_task is left to drain the egress channel.
AbortAll_without_send_task(s) == LiveTasks(s) \ {SendTask}

\* `broadcast_task.abort(); send_task.abort();` and
\* `for task in tasks.iter() { task.abort() }`: the tasks now asked to stop
AbortAll(s) == LiveTasks(s)

\* JoinHandle::abort schedules the task for cancellation and returns; the
\* task stops at its next await, here: a task in the middle of a poll may
\* still take what its channel has ready before it stops.
AbortTakesEffect(s) ==
    /\ s \in WsSids
    /\ \E x \in ws_tasks[s].cancelling :
          /\ ws_tasks' = [ws_tasks EXCEPT
                ![s].cancelling = @ \ {x},
                ![s].send = IF x = SendTask THEN "aborted" ELSE @]
          /\ event_rx' = [event_rx EXCEPT ![s] = IF x = RelayTask THEN 0 ELSE @]
          /\ topic_tasks' = [topic_tasks EXCEPT ![s] =
                [i \in DOMAIN @ |->
                    IF x = FollowerTask(i) THEN [@[i] EXCEPT !.aborted = TRUE] ELSE @[i]]]
    /\ UNCHANGED <<subscriptions, added, conn, sub, disc, reqs, rooms, received,
                   topic_channels, egress, pub>>
    /\ UNCHANGED <<now, db_queue, event_log>>
    /\ UNCHANGED backVars
    /\ UNCHANGED <<cacheVars, calls, bus>>

\* handle_socket cleanup: `broadcast_task.abort(); send_task.abort();` and
\* `for task in tasks.iter() { task.abort() }`
WsCleanup(s) ==
    /\ s \in WsSids
    /\ disc[s].pc = "abort"
    /\ ws_tasks' = [ws_tasks EXCEPT ![s].cancelling = AbortAll(s),
                                    ![s].pushed_at_cleanup = Len(egress[s])]
    /\ disc' = [disc EXCEPT ![s].pc = "done"]
    /\ UNCHANGED <<subscriptions, added, conn, sub, reqs, rooms, received,
                   topic_channels, topic_tasks, egress, event_rx, pub>>
    /\ UNCHANGED <<now, db_queue, event_log>>
    /\ UNCHANGED backVars
    /\ UNCHANGED <<cacheVars, calls, bus>>

(***************************************************************************)
(* The same handlers with a call of the broker taken whole, for the        *)
(* specifications in which no other task reads the registry in between.    *)
(***************************************************************************)
\* Broker::register_subscription(sid, consumer, topic), whole
register_subscription(sid, consumer, topic) ==
    IF MissingParameter(sid, consumer, topic)
    THEN UNCHANGED <<db_queue, subscriptions, added, event_log>>
    ELSE /\ db_tx_send(DbCommand("RegisterSubscription", sid, consumer, topic, "", "", now))
         /\ subscriptions' = RegistryAdd(subscriptions, sid, consumer, topic, now)
         /\ added' = [added EXCEPT ![sid] = Append(@, topic)]
         /\ event_tx_send(<<BroadcastEvent("new_client", consumer, topic, "", "", now)>>)

\* Broker::unregister_client(sid), whole
unregister_client(sid) ==
    /\ db_tx_send(DbCommand("UnregisterClient", sid, "", "", "", "", 0))
    /\ subscriptions' = RegistryRemove(subscriptions, sid)
    /\ added' = [added EXCEPT ![sid] = <<>>]
    /\ event_tx_send(DisconnectEvents(get_client_by_sid(sid)))

\* one turn of the subscribe handler's loop: register_subscription and the
\* join (Socket.IO) or the follower (WebSocket)
SubscribeTopic(s) ==
    /\ sub[s].pc = "register"
    /\ LET t == Head(sub[s].topics)
       IN  /\ register_subscription(s, sub[s].consumer, t)
           /\ IF s \in SioSids
              THEN /\ rooms' = [rooms EXCEPT ![s] = JoinRooms(@, t)]
                   /\ UNCHANGED <<topic_channels, topic_tasks>>
              ELSE /\ topic_channels' = TopicChannel(topic_channels, t)
                   /\ topic_tasks' = [topic_tasks EXCEPT ![s] =
                         Append(@, Follower(t, Len(TopicChannel(topic_channels, t)[t]) + 1))]
                   /\ UNCHANGED rooms
    /\ sub' = [sub EXCEPT ![s] = NextTopic(@)]
    /\ UNCHANGED <<conn, disc, reqs, received, egress, event_rx, pub>>
    /\ UNCHANGED now
    /\ UNCHANGED backVars
    /\ UNCHANGED <<cacheVars, calls, bus, ws_tasks>>

\* the disconnect handling, whole: on_disconnect (Socket.IO), or the cleanup
\* of handle_socket (WebSocket)
DisconnectWhole(s) ==
    /\ conn[s] = "open"
    /\ disc[s].pc = "idle"
    /\ s \in WsSids => sub[s].pc = "idle"
    /\ conn' = [conn EXCEPT ![s] = "closed"]
    /\ unregister_client(s)
    /\ disc' = [disc EXCEPT ![s] = [pc |-> "done", client_info |-> get_client_by_sid(s),
                                     removed |-> get_client_by_sid(s)]]
    /\ rooms' = [r \in SioSids |-> IF r = s THEN {} ELSE rooms[r]]
    /\ ws_tasks' = [w \in WsSids |->
            IF w = s
            THEN [ws_tasks[w] EXCEPT !.cancelling = AbortAll(w),
                                     !.pushed_at_cleanup = Len(egress[w])]
            ELSE ws_tasks[w]]
    /\ UNCHANGED <<sub, reqs, received, topic_channels, topic_tasks, egress, event_rx, pub>>
    /\ UNCHANGED now
    /\ UNCHANGED backVars
    /\ UNCHANGED <<cacheVars, calls, bus>>

SessionWhole(s) ==
    \/ Connect(s) \/ SubscribeRequest(s) \/ SubscribeTopic(s) \/ DisconnectWhole(s)

Session(s) ==
    \/ Connect(s) \/ SubscribeRequest(s)
    \/ RegisterSend(s) \/ RegisterWrite(s) \/ RegisterEmit(s)
    \/ SioJoin(s) \/ WsAttach(s)
    \/ Disconnect(s)
    \/ UnregisterSend(s) \/ UnregisterRemove(s) \/ UnregisterEmit(s) \/ WsCleanup(s)

\* the steps of a Socket.IO session
SioSession(s) ==
    \/ Connect(s) \/ SubscribeRequest(s)
    \/ RegisterSend(s) \/ RegisterWrite(s) \/ RegisterEmit(s)
    \/ SioJoin(s)
    \/ Disconnect(s)
    \/ UnregisterSend(s) \/ UnregisterRemove(s) \/ UnregisterEmit(s)

(***************************************************************************)
(* publish_handler (POST /publish).  The two room emissions are joined     *)
(* (parallel-emit) or run one after the other (sequential-emit): they      *)
(* complete in either order.                                               *)
(***************************************************************************)
\* emitted, settled and after are history: the rooms the handler has emitted
\* to, the sessions settled and the requests answered when the request arrived
PubIdle == [pc |-> "idle", topic |-> "", message_id |-> "", producer |-> "",
            pending |-> {}, settled |-> {}, emitted |-> {}, after |-> {}]

\* the bodies a POST /publish may carry: every topic with the other fields
\* filled, and one body for each field left empty
PublishBodies ==
    {<<t, m, p>> : t \in Topics, m \in MsgIds, p \in Producers} \cup
    {<<"", m, p>> : m \in MsgIds, p \in Producers} \cup
    {<<"T", "", p>> : p \in Producers} \cup
    {<<"T", m, "">> : m \in MsgIds}

\* Faulty variant of BadRequest: the producer is not looked at.
BadRequest_no_producer(topic, message_id, producer) ==
    topic = "" \/ message_id = ""

\* `payload.topic.is_empty() || payload.message_id.is_empty() || payload.producer.is_empty()`
BadRequest(topic, message_id, producer) ==
    topic = "" \/ message_id = "" \/ producer = ""

\* history: the sessions whose subscribe handling is over when a request arrives
Settled == {s \in Sids : conn[s] = "open" /\ sub[s].pc = "idle" /\ reqs[s] # <<>>}

\* history: the requests whose response has been sent when a request arrives
Answered == {j \in 1 .. MaxPublish : pub[j].pc \in {"done", "rejected"}}

\* a request arrives: 400 if topic, message_id or producer is empty
PublishRequest(i) ==
    /\ pub[i].pc = "idle"
    /\ i > 1 => pub[i - 1].pc # "idle"
    /\ \E body \in PublishBodies :
          pub' = [pub EXCEPT ![i] =
                    [pc |-> IF BadRequest(body[1], body[2], body[3])
                            THEN "rejected" ELSE "save",
                     topic |-> body[1], message_id |-> body[2], producer |-> body[3],
                     pending |-> {}, settled |-> Settled, emitted |-> {},
                     after |-> Answered]]
    /\ UNCHANGED sessVars
    /\ UNCHANGED <<now, db_queue, event_log>>
    /\ UNCHANGED backVars
    /\ UNCHANGED <<cacheVars, calls, bus, ws_tasks>>

\* `state.broker.save_message(..).await`
PublishSave(i) ==
    /\ pub[i].pc = "save"
    /\ save_message(pub[i].topic, pub[i].message_id, pub[i].producer)
    /\ pub' = [pub EXCEPT ![i].pc = "emit", ![i].pending = {"topic", "wildcard"}]
    /\ UNCHANGED sessVars
    /\ UNCHANGED now
    /\ UNCHANGED backVars
    /\ UNCHANGED <<cacheVars, calls, bus, ws_tasks>>

\* the room an emission of a request goes to:
\* `ns.to(payload.topic.clone())` and `ns.to("__all__")`
EmitRoom(p, which) == IF which = "topic" THEN p.topic ELSE AllRoom

\* `ns.to(room).emit("message", &payload)`: every connected socket in the room
\* gets the event; req and via are history tags
PublishEmit(i) ==
    /\ pub[i].pc = "emit"
    /\ \E which \in pub[i].pending :
          /\ received' = [s \in SioSids |->
                IF conn[s] = "open" /\ EmitRoom(pub[i], which) \in rooms[s]
                THEN Append(received[s],
                            [req |-> i, topic |-> pub[i].topic,
                             message_id |-> pub[i].message_id,
                             producer |-> pub[i].producer, via |-> which])
                ELSE received[s]]
          /\ pub' = [pub EXCEPT ![i].pending = @ \ {which},
                                ![i].emitted = @ \cup {EmitRoom(pub[i], which)},
                                ![i].pc = IF pub[i].pending = {which} THEN "done" ELSE "emit"]
    /\ UNCHANGED <<subscriptions, added, conn, sub, disc, reqs, rooms,
                   topic_channels, topic_tasks, egress, event_rx>>
    /\ UNCHANGED <<now, db_queue, event_log>>
    /\ UNCHANGED backVars
    /\ UNCHANGED <<cacheVars, calls, bus, ws_tasks>>

Publish(i) == PublishRequest(i) \/ PublishSave(i) \/ PublishEmit(i)

(***************************************************************************)
(* The read cache in front of GET /messages: messages_handler and          *)
(* get_or_fetch_cached, one step per access to shared state.               *)
(***************************************************************************)
\* due is history: the messages committed at least TTL before the request
\* arrived; queries is history: how many times the request ran the query
GetIdle == [pc |-> "idle", dashboard |-> FALSE, data |-> {}, ok |-> TRUE,
            result |-> {}, hit |-> FALSE, due |-> {}, queries |-> 0,
            read_no |-> 0]

\* history: how many of the requests have run their query
ReadsDone == Cardinality({h \in DOMAIN gets : gets[h].queries > 0})

\* the seq tags of the messages committed at least TTL ago
DueNow == {applied[i].seq : i \in {k \in DOMAIN applied :
              /\ db_queue[applied[k].seq].kind = "SaveMessage"
              /\ applied[k].at + TTL <= now}}

\* Broker::get_messages: `SELECT .. FROM messages ORDER BY timestamp DESC LIMIT 100`:
\* the results the query may give, as sets of rows; Err gives the empty Vec
get_messages == NewestRows(db.messages, MESSAGES_LIMIT)

\* POST /dashboard/login and POST /dashboard/logout
DashboardLogin ==
    /\ ~ dashboard_enabled
    /\ dashboard_enabled' = TRUE
    /\ UNCHANGED <<cache, gets>>
    /\ UNCHANGED <<now, db, writer, event_log>>
    /\ UNCHANGED <<batchVars, purgeVars, sessVars, pub, calls, bus, ws_tasks, graph>>

DashboardLogout ==
    /\ dashboard_enabled
    /\ dashboard_enabled' = FALSE
    /\ UNCHANGED <<cache, gets>>
    /\ UNCHANGED <<now, db, writer, event_log>>
    /\ UNCHANGED <<batchVars, purgeVars, sessVars, pub, calls, bus, ws_tasks, graph>>

\* Faulty variant of Bypass: the cache is used whatever the flag says.
Bypass_never(enabled) == FALSE

\* get_or_fetch_cached: `if !dashboard_enabled { return fetch_fn().await; }`
Bypass(enabled) == ~ enabled

\* messages_handler: `state.dashboard_enabled.load(Ordering::Relaxed)`, and
\* `if !dashboard_enabled { return fetch_fn().await }`
GetStart(g) ==
    /\ gets[g].pc = "idle"
    /\ g > 1 => gets[g - 1].pc # "idle"
    /\ gets' = [gets EXCEPT ![g] =
            [GetIdle EXCEPT !.pc = IF Bypass(dashboard_enabled) THEN "fetch" ELSE "check",
                            !.dashboard = dashboard_enabled,
                            !.due = DueNow]]
    /\ UNCHANGED <<dashboard_enabled, cache>>
    /\ UNCHANGED <<now, db, writer, event_log>>
    /\ UNCHANGED <<batchVars, purgeVars, sessVars, pub, calls, bus, ws_tasks, graph>>

\* Faulty variant of Fresh: an entry that is TTL old still counts.
Fresh_inclusive(slot) == slot # <<>> /\ now - slot[1].timestamp <= TTL

\* `if let Some((data, timestamp)) = cache_read.as_ref()` and
\* `timestamp.elapsed() < ttl`
Fresh(slot) == slot # <<>> /\ now - slot[1].timestamp < TTL

\* under `cache.read().await`: a hit if the slot is filled and
\* `timestamp.elapsed() < ttl`
GetCheck(g) ==
    /\ gets[g].pc = "check"
    /\ IF Fresh(cache.messages)
       THEN gets' = [gets EXCEPT ![g].pc = "done", ![g].hit = TRUE,
                                 ![g].result = cache.messages[1].data,
                                 ![g].ok = cache.messages[1].ok]
       ELSE gets' = [gets EXCEPT ![g].pc = "fetch"]
    /\ UNCHANGED <<dashboard_enabled, cache>>
    /\ UNCHANGED <<now, db, writer, event_log>>
    /\ UNCHANGED <<batchVars, purgeVars, sessVars, pub, calls, bus, ws_tasks, graph>>

\* `fetch_fn().await`: the query reads the committed store; ok is a history
\* tag, FALSE when the query failed and the empty Vec stands for its result
GetFetch(g) ==
    /\ gets[g].pc = "fetch"
    /\ \/ \E rows \in get_messages :
             gets' = [gets EXCEPT ![g].data = rows, ![g].ok = TRUE,
                        ![g].queries = @ + 1,
                        ![g].read_no = ReadsDone + 1,
                        ![g].result = IF Bypass(gets[g].dashboard) THEN rows ELSE @,
                        ![g].pc = IF Bypass(gets[g].dashboard) THEN "done" ELSE "store"]
       \/ gets' = [gets EXCEPT ![g].data = {}, ![g].ok = FALSE,
                        ![g].queries = @ + 1,
                        ![g].read_no = ReadsDone + 1,
                        ![g].result = {},
                        ![g].pc = IF Bypass(gets[g].dashboard) THEN "done" ELSE "store"]
    /\ UNCHANGED <<dashboard_enabled, cache>>
    /\ UNCHANGED <<now, db, writer, event_log>>
    /\ UNCHANGED <<batchVars, purgeVars, sessVars, pub, calls, bus, ws_tasks, graph>>

\* What a request writes in the slot: its result and Instant::now().
\* History: the rank of the query that read the result among the queries run.
SlotOf(g) ==
    [data |-> gets[g].data, ok |-> gets[g].ok, timestamp |-> now,
     read_no |-> gets[g].read_no]

\* Variant of GetStore that keeps the slot when it holds the result of a
\* later query.
GetStore_keep_fresher(g) ==
    /\ gets[g].pc = "store"
    /\ IF cache.messages # <<>> /\ cache.messages[1].read_no > gets[g].read_no
       THEN UNCHANGED cache
       ELSE cache' = [cache EXCEPT !.messages = <<SlotOf(g)>>]
    /\ gets' = [gets EXCEPT ![g].pc = "done", ![g].result = gets[g].data]
    /\ UNCHANGED dashboard_enabled
    /\ UNCHANGED <<now, db, writer, event_log>>
    /\ UNCHANGED <<batchVars, purgeVars, sessVars, pub, calls, bus, ws_tasks, graph>>

\* under `cache.write().await`:
\* `*cache_write = Some((data.clone(), Instant::now()))`, then `data` is returned
GetStore(g) ==
    /\ gets[g].pc = "store"
    /\ cache' = [cache EXCEPT !.messages = <<SlotOf(g)>>]
    /\ gets' = [gets EXCEPT ![g].pc = "done", ![g].result = gets[g].data]
    /\ UNCHANGED dashboard_enabled
    /\ UNCHANGED <<now, db, writer, event_log>>
    /\ UNCHANGED <<batchVars, purgeVars, sessVars, pub, calls, bus, ws_tasks, graph>>

Get(g) == GetStart(g) \/ GetCheck(g) \/ GetFetch(g) \/ GetStore(g)

\* The five queries that get_graph_state joins, and the call before it starts.
GraphQueries == {"producers", "consumers", "topics", "subscriptions", "publications"}

EmptyGraphState == [producers |-> {}, consumers |-> {}, topics |-> {}, links |-> {}]

GraphIdle ==
    [pc |-> "idle", pending |-> {}, failed |-> FALSE, seen |-> {},
     producers |-> {}, consumers |-> {}, topics |-> {},
     subscriptions |-> {}, publications |-> {},
     result |-> EmptyGraphState]

(***************************************************************************)
(* Initial state: after main has built the pool, the bus and the broker.   *)
(***************************************************************************)
InitFront ==
    /\ subscriptions = << >>
    /\ added = [s \in Sids |-> <<>>]
    /\ conn = [s \in Sids |-> "new"]
    /\ sub = [s \in Sids |-> SubIdle]
    /\ disc = [s \in Sids |-> DiscIdle]
    /\ reqs = [s \in Sids |-> <<>>]
    /\ rooms = [s \in SioSids |-> {}]
    /\ received = [s \in SioSids |-> <<>>]
    /\ topic_channels = << >>
    /\ topic_tasks = [s \in WsSids |-> <<>>]
    /\ egress = [s \in WsSids |-> <<>>]
    /\ event_rx = [s \in WsSids |-> 0]
    /\ pub = [i \in 1 .. MaxPublish |-> PubIdle]
    /\ dashboard_enabled = FALSE
    /\ cache = [messages |-> <<>>]
    /\ gets = [g \in 1 .. MaxGets |-> GetIdle]
    /\ calls = <<>>
    /\ bus = [relay_rx |-> 1, lagged |-> {}, relayed |-> <<>>]
    /\ ws_tasks = [s \in WsSids |->
            [send |-> "new", sent |-> 0, cancelling |-> {}, pushed_at_cleanup |-> 0]]
    /\ graph = GraphIdle

Init ==
    /\ InitFront
    /\ now = 0
    /\ db = EmptyDb
    /\ writer = "none"
    /\ db_queue = <<>>
    /\ db_rx = 0
    /\ batch = <<>>
    /\ worker = WorkerIdle
    /\ event_log = <<>>
    /\ applied = <<>>
    /\ dropped = {}
    /\ lastFlush = [outcome |-> "none", before |-> EmptyDb, cmds |-> {}]
    /\ purge = PurgeIdle
    /\ lastPurge = [outcome |-> "none", cutoff |-> 0, before |-> EmptyDb, n |-> 0]
    /\ interval = IntervalNew(0)

\* the clock advances
Tick ==
    /\ now < MaxTime
    /\ now' = now + 1
    /\ UNCHANGED <<db, writer, event_log>>
    /\ UNCHANGED batchVars
    /\ UNCHANGED purgeVars
    /\ UNCHANGED frontVars
    /\ UNCHANGED <<cacheVars, calls, bus, ws_tasks>>

(***************************************************************************)
(* Batcher specification: broker operations send commands, the batch       *)
(* worker receives and flushes them.                                       *)
(***************************************************************************)
\* the topics the callers of this specification name
BatchTopics == {"T", "T2"}

CallSaveMessage ==
    /\ Len(db_queue) < MaxCmds
    /\ \E m \in MsgIds, p \in Producers : save_message("T", m, p)
    /\ UNCHANGED <<now, db, writer, db_rx, batch, worker, applied, dropped, lastFlush>>
    /\ UNCHANGED purgeVars
    /\ UNCHANGED frontVars
    /\ UNCHANGED <<cacheVars, calls, bus, ws_tasks>>

CallSaveConsumption ==
    /\ Len(db_queue) < MaxCmds
    /\ \E c \in Consumers, m \in MsgIds : save_consumption(c, "T", m)
    /\ UNCHANGED <<now, db, writer, db_rx, batch, worker, applied, dropped, lastFlush>>
    /\ UNCHANGED purgeVars
    /\ UNCHANGED frontVars
    /\ UNCHANGED <<cacheVars, calls, bus, ws_tasks>>

CallRegister ==
    /\ Len(db_queue) < MaxCmds
    /\ \E s \in SioSids, c \in Consumers, t \in BatchTopics : register_subscription(s, c, t)
    /\ UNCHANGED <<conn, sub, disc, reqs, rooms, received,
                   topic_channels, topic_tasks, egress, event_rx, pub>>
    /\ UNCHANGED now
    /\ UNCHANGED backVars
    /\ UNCHANGED <<cacheVars, calls, bus, ws_tasks>>

CallUnregister ==
    /\ Len(db_queue) < MaxCmds
    /\ \E s \in SioSids : unregister_client(s)
    /\ UNCHANGED <<conn, sub, disc, reqs, rooms, received,
                   topic_channels, topic_tasks, egress, event_rx, pub>>
    /\ UNCHANGED now
    /\ UNCHANGED backVars
    /\ UNCHANGED <<cacheVars, calls, bus, ws_tasks>>

\* the arguments a caller of register_subscription may pass: a session, a
\* consumer and a topic, or one of them empty
RegisterArgs ==
    {<<s, c, t>> : s \in SioSids, c \in Consumers, t \in BatchTopics} \cup
    {<<"", c, "T">> : c \in Consumers} \cup
    {<<s, "", "T">> : s \in SioSids} \cup
    {<<s, c, "">> : s \in SioSids, c \in Consumers}

\* a call of register_subscription with any of these arguments
CallRegisterWith ==
    /\ Len(calls) < MaxCalls
    /\ \E a \in RegisterArgs :
          /\ register_subscription(a[1], a[2], a[3])
          /\ calls' = Append(calls, a)
    /\ UNCHANGED <<conn, sub, disc, reqs, rooms, received,
                   topic_channels, topic_tasks, egress, event_rx, pub>>
    /\ UNCHANGED now
    /\ UNCHANGED backVars
    /\ UNCHANGED <<cacheVars, bus, ws_tasks>>

\* the facade's registry operations, called one after another
NextFacade == CallRegisterWith \/ CallUnregister

SpecFacade == Init /\ [][NextFacade]_vars

BatchWorker == WorkerTick \/ WorkerRecv \/ FlushBegin \/ FlushExec \/ FlushEnd

NextBatch ==
    \/ CallSaveMessage \/ CallSaveConsumption \/ CallRegister \/ CallUnregister
    \/ BatchWorker

SpecBatch == Init /\ [][NextBatch]_vars

\* The batch worker is a spawned task of the runtime and is always scheduled
\* again; its 20 ms interval keeps firing; select! picks among its ready
\* branches at random, so that none is passed over forever; and every await
\* of flush_batch on the store returns, with Ok or Err.
BatchFairness ==
    /\ WF_vars(WorkerTick)
    /\ WF_vars(WorkerRecv)
    /\ WF_vars(FlushBegin)
    /\ WF_vars(FlushExec)
    /\ WF_vars(FlushEnd)

SpecBatchFair == Init /\ [][NextBatch]_vars /\ BatchFairness

(***************************************************************************)
(* Message-plane specifications: concurrent publish handlers; sessions of  *)
(* both transports, step by step; Socket.IO sessions step by step; and the *)
(* sessions of one transport, a broker call taken whole, with publishes.   *)
(***************************************************************************)
NextPublish == \E i \in 1 .. MaxPublish : Publish(i)

SpecPublish == Init /\ [][NextPublish]_vars

\* publish handlers and the batch worker that commits what they save
NextPublishStore ==
    \/ \E i \in 1 .. MaxPublish : Publish(i)
    \/ BatchWorker

SpecPublishStore == Init /\ [][NextPublishStore]_vars

NextRegistry ==
    \/ \E s \in Sids : Session(s)
    \/ \E s \in WsSids : AbortTakesEffect(s)

SpecRegistry == Init /\ [][NextRegistry]_vars

NextSioRegistry == \E s \in SioSids : SioSession(s)

SpecSioRegistry == Init /\ [][NextSioRegistry]_vars

\* Socket.IO sessions step by step, and the batch worker that commits the
\* commands they send
NextSioStore ==
    \/ \E s \in SioSids : SioSession(s)
    \/ BatchWorker

SpecSioStore == Init /\ [][NextSioStore]_vars

NextSio ==
    \/ \E s \in SioSids : SessionWhole(s)
    \/ \E i \in 1 .. MaxPublish : Publish(i)

SpecSio == Init /\ [][NextSio]_vars

\* the Event Bus: the producers of the facade, the relay task of main and
\* the bus relays of WebSocket sessions that come and go
NextBus ==
    \/ CallSaveMessage \/ CallSaveConsumption \/ CallRegister \/ CallUnregister
    \/ RelayRecv
    \/ \E s \in WsSids :
          Connect(s) \/ WsBroadcast(s) \/ DisconnectWhole(s) \/ AbortTakesEffect(s)

SpecBus == Init /\ [][NextBus]_vars

NextWs ==
    \/ \E s \in WsSids : SessionWhole(s) \/ AbortTakesEffect(s)
    \/ \E i \in 1 .. MaxPublish : Publish(i)

SpecWs == Init /\ [][NextWs]_vars

\* the topic followers of a WebSocket session on their own: the session
\* subscribes and goes away, strings are sent on the topic channels, the
\* egress writer writes them to the wire or fails
NextFollower ==
    \/ \E s \in WsSids :
          \/ Connect(s) \/ SubscribeRequest(s) \/ SubscribeTopic(s)
          \/ WsSend(s) \/ FollowerForward(s)
          \/ DisconnectWhole(s) \/ AbortTakesEffect(s)
    \/ \E t \in Topics \cup {Wildcard} : TopicSend(t)

\* the runtime schedules a follower whose receiver has a result ready
SpecFollower ==
    /\ Init /\ [][NextFollower]_vars
    /\ \A s \in WsSids : WF_vars(FollowerForward(s))

\* the task tree of a WebSocket session: the session subscribes and goes
\* away, strings are sent on the topic channels, no more than a channel
\* holds, and the bus relay, the egress writer and the followers run
NextWsTasks ==
    \/ \E s \in WsSids :
          \/ Connect(s) \/ SubscribeRequest(s) \/ SubscribeTopic(s)
          \/ WsBroadcast(s) \/ WsSend(s) \/ FollowerForward(s)
          \/ DisconnectWhole(s) \/ AbortTakesEffect(s)
    \/ \E t \in Topics \cup {Wildcard} : TopicSent < TOPIC_CAPACITY /\ TopicSend(t)

\* the runtime schedules a ready follower again, and carries out the
\* cancellations asked of it
SpecWsTasks ==
    /\ Init /\ [][NextWsTasks]_vars
    /\ \A s \in WsSids : WF_vars(FollowerForward(s)) /\ WF_vars(AbortTakesEffect(s))

(***************************************************************************)
(* Cache specification: producers save messages, the batch worker commits  *)
(* them, the clock advances and GET /messages requests race on the slot.   *)
(***************************************************************************)
\* a producer saves a message; one more message than the query returns
CacheSaveMessage ==
    /\ Len(db_queue) <= MESSAGES_LIMIT
    /\ \E m \in MsgIds, p \in Producers : save_message("T", m, p)
    /\ UNCHANGED <<now, db, writer, db_rx, batch, worker, applied, dropped, lastFlush>>
    /\ UNCHANGED purgeVars
    /\ UNCHANGED frontVars
    /\ UNCHANGED <<cacheVars, calls, bus, ws_tasks>>

NextCache ==
    \/ CacheSaveMessage
    \/ BatchWorker
    \/ Tick
    \/ DashboardLogin \/ DashboardLogout
    \/ \E g \in 1 .. MaxGets : Get(g)

SpecCache == Init /\ [][NextCache]_vars

(***************************************************************************)
(* Purge specification: purge_old_data applied to a drawn store.           *)
(***************************************************************************)
Times == 0 .. MaxTime

\* the tables of at most MaxRows rows: every multiset of timestamps, ids in
\* timestamp order (the purge and the properties do not read the ids' order)
DrawnTables ==
    UNION {{ {[id |-> i, timestamp |-> f[i]] : i \in 1 .. n} :
               f \in {g \in [1 .. n -> Times] :
                        \A i \in 1 .. n, j \in 1 .. n : i <= j => g[i] <= g[j]} } :
           n \in 0 .. MaxRows}

InitPurge ==
    /\ InitFront
    /\ now = MaxTime
    /\ \E ms \in DrawnTables, cs \in DrawnTables :
          db = [EmptyDb EXCEPT !.messages = ms, !.consumptions = cs,
                               !.msg_id = Cardinality(ms), !.cons_id = Cardinality(cs)]
    /\ writer = "none"
    /\ db_queue = <<>>
    /\ db_rx = 0
    /\ batch = <<>>
    /\ worker = WorkerIdle
    /\ event_log = <<>>
    /\ applied = <<>>
    /\ dropped = {}
    /\ lastFlush = [outcome |-> "none", before |-> EmptyDb, cmds |-> {}]
    /\ purge = PurgeIdle
    /\ lastPurge = [outcome |-> "none", cutoff |-> 0, before |-> EmptyDb, n |-> 0]
    /\ interval = [next |-> PURGE_INTERVAL, ticks |-> 1]

PurgeWorker == PurgeStart \/ PurgeBegin \/ PurgeMessages \/ PurgeConsumptions \/ PurgeCommit

NextPurge == PurgeWorker

\* the purge worker from the start of the process, with the clock: a store
\* that producers fill and the batch worker commits to
NextRetention ==
    \/ PurgeFirstTick \/ PurgeWorker
    \/ Tick
    \/ CacheSaveMessage \/ BatchWorker

SpecRetention == Init /\ [][NextRetention]_vars

\* the facade called by producers and sessions while the batch worker and
\* the purge worker use the store; the clock runs up to the first purge
NextProducers ==
    \/ CallSaveMessage \/ CallSaveConsumption \/ CallRegister \/ CallUnregister
    \/ BatchWorker
    \/ PurgeFirstTick \/ PurgeWorker
    \/ (now < PURGE_INTERVAL /\ Tick)

SpecProducers == Init /\ [][NextProducers]_vars

SpecPurge == InitPurge /\ [][NextPurge]_vars

(***************************************************************************)
(* Properties.                                                             *)
(***************************************************************************)
\* the publish requests with a given payload that are past save_message
Saved(t, m, p) ==
    {i \in 1 .. MaxPublish :
        /\ pub[i].pc \in {"emit", "done"}
        /\ pub[i].topic = t /\ pub[i].message_id = m /\ pub[i].producer = p}

SaveMessageCommands(t, m, p) ==
    {k \in DOMAIN db_queue :
        /\ db_queue[k].kind = "SaveMessage"
        /\ db_queue[k].topic = t /\ db_queue[k].message_id = m /\ db_queue[k].producer = p}

NewMessageEvents(t, m, p) ==
    {k \in DOMAIN event_log :
        /\ event_log[k].event_type = "new_message"
        /\ event_log[k].topic = t /\ event_log[k].message_id = m /\ event_log[k].producer = p}

\* C1: every accepted publish request has enqueued exactly one SaveMessage
\* command and emitted exactly one new_message event, whatever the
\* interleaving of the publish handlers: for each payload, the commands and
\* the events carrying it are as many as the accepted requests that carried
\* it and are past save_message; a rejected request enqueues and emits nothing.
C1_ExactlyOneSaveAndEvent ==
    /\ \A t \in Topics, m \in MsgIds, p \in Producers :
          /\ Cardinality(SaveMessageCommands(t, m, p)) = Cardinality(Saved(t, m, p))
          /\ Cardinality(NewMessageEvents(t, m, p)) = Cardinality(Saved(t, m, p))
    /\ Len(db_queue) = Cardinality({i \in 1 .. MaxPublish : pub[i].pc \in {"emit", "done"}})
    /\ Len(event_log) = Len(db_queue)

\* two accepted requests with the same payload are both through
C1_Witness ==
    \E i \in 1 .. MaxPublish, j \in 1 .. MaxPublish :
        /\ i # j
        /\ pub[i].pc = "done" /\ pub[j].pc = "emit"
        /\ pub[i].topic = pub[j].topic
        /\ Len(db_queue) = 2

\* a field of the request's body is empty
EmptyField(i) == pub[i].topic = "" \/ pub[i].message_id = "" \/ pub[i].producer = ""

\* C11: a POST /publish with an empty topic, message_id or producer ends in
\* 400 and leaves no trace: it is never past the validation, it has emitted
\* to no room and no socket got a "message" event for it, the commands on
\* the queue and the events on the bus are those of the accepted requests
\* (none carries an empty field), and so are the rows of the store.
C11_BadRequestChangesNothing ==
    /\ \A i \in 1 .. MaxPublish :
          (pub[i].pc # "idle" /\ EmptyField(i)) =>
              /\ pub[i].pc = "rejected"
              /\ pub[i].emitted = {} /\ pub[i].pending = {}
              /\ \A s \in SioSids : \A k \in DOMAIN received[s] : received[s][k].req # i
    /\ Len(db_queue) = Cardinality({i \in 1 .. MaxPublish :
                                      pub[i].pc \in {"emit", "done"} /\ ~ EmptyField(i)})
    /\ Len(event_log) = Len(db_queue)
    /\ \A k \in DOMAIN db_queue :
          db_queue[k].topic # "" /\ db_queue[k].message_id # "" /\ db_queue[k].producer # ""
    /\ \A k \in DOMAIN event_log :
          event_log[k].topic # "" /\ event_log[k].message_id # "" /\ event_log[k].producer # ""
    /\ \A r \in db.messages : r.topic # "" /\ r.message_id # "" /\ r.producer # ""
    /\ Cardinality(db.messages) <= Len(db_queue)

\* a request with an empty producer was rejected, then an accepted one went
\* through and its message is committed: the store holds that row alone
C11_Witness ==
    /\ pub[1].pc = "rejected" /\ pub[1].producer = ""
    /\ pub[2].pc = "done"
    /\ Cardinality(db.messages) = 1

\* the session sent one subscribe request, topics = ["*"], handled before
\* request i arrived, and is still connected
WildcardSubscriber(s, i) ==
    /\ reqs[s] = << <<Wildcard>> >>
    /\ s \in pub[i].settled
    /\ conn[s] = "open"

\* C12: a session subscribed with topics = ["*"] gets the messages of
\* requests made one after another (each answered before the next arrives)
\* to different topics in publish order: every event of the earlier request
\* is in its stream, and before every event of the later one.
C12_WildcardPublishOrder ==
    \A s \in SioSids : \A i, j \in 1 .. MaxPublish :
        ( /\ i < j /\ WildcardSubscriber(s, i)
          /\ pub[i].pc = "done" /\ pub[j].pc = "done"
          /\ i \in pub[j].after
          /\ pub[i].topic # pub[j].topic )
        => /\ \E k \in DOMAIN received[s] : received[s][k].req = i
           /\ \E k \in DOMAIN received[s] : received[s][k].req = j
           /\ \A k, l \in DOMAIN received[s] :
                 (received[s][k].req = i /\ received[s][l].req = j) => k < l

\* the wildcard subscriber has got the message published to "T" and then the
\* one published to "T2", the second request made after the first was answered
C12_Witness ==
    \E s \in SioSids :
        /\ WildcardSubscriber(s, 1)
        /\ pub[1].pc = "done" /\ pub[2].pc = "done" /\ 1 \in pub[2].after
        /\ pub[1].topic = "T" /\ pub[2].topic = "T2"
        /\ Len(received[s]) = 2
        /\ received[s][1].req = 1 /\ received[s][2].req = 2

\* a step of GET request g
GetStep(g) == gets'[g] # gets[g]

\* C13: a GET /messages that read the dashboard flag as false bypasses the
\* cache: it never looks at the slot nor writes it (no step of the request
\* changes the slot's value or its filled_at), the query is run, and the
\* response is the query's result.
C13_BypassLeavesCache ==
    /\ [](\A g \in 1 .. MaxGets :
            (gets[g].pc # "idle" /\ ~ gets[g].dashboard) =>
                /\ gets[g].pc \in {"fetch", "done"}
                /\ gets[g].pc = "done" =>
                      (~ gets[g].hit /\ gets[g].result = gets[g].data))
    /\ [][\A g \in 1 .. MaxGets :
            (GetStep(g) /\ ~ gets'[g].dashboard) => cache' = cache]_vars

\* a request served with the flag false, while the slot is filled, returned
\* rows that differ from the slot's
C13_Witness ==
    \E g \in 1 .. MaxGets :
        /\ gets[g].pc = "done" /\ ~ gets[g].dashboard /\ gets[g].ok
        /\ cache.messages # <<>>
        /\ gets[g].result # cache.messages[1].data

\* C14: no event of the bus is relayed to a client while dashboard mode is
\* disabled: every bus event on a session's egress channel was relayed while
\* the flag was true.
C14_NoRelayWhileDisabled ==
    \A s \in WsSids : \A k \in DOMAIN egress[s] :
        egress[s][k].frame = "event" => egress[s][k].enabled

\* the "message" events a socket got for one publish request
Deliveries(s, i) == {k \in DOMAIN received[s] : received[s][k].req = i}

\* the session's subscribe requests named the topic t and nothing else
NamedOnly(s, t) ==
    /\ reqs[s] # <<>>
    /\ \A k \in DOMAIN reqs[s] : Range(reqs[s][k]) = {t}

\* C2: a session whose subscribe requests named only the topic T gets each
\* message published to T after its subscribe was processed exactly once, and
\* gets no message published to another topic T2.
C2_OnlySubscribedTopic ==
    \A s \in SioSids, t \in Topics, i \in 1 .. MaxPublish :
        (NamedOnly(s, t) /\ pub[i].pc = "done") =>
            IF pub[i].topic = t
            THEN (s \in pub[i].settled /\ conn[s] = "open")
                    => Cardinality(Deliveries(s, i)) = 1
            ELSE Deliveries(s, i) = {}

\* C3: once a subscribe request with topics = ["*"] is processed the session
\* is in the wildcard room and in no other, and each message published
\* afterwards reaches it once, by the wildcard emission and not by the
\* per-topic emission.
C3_WildcardOnly ==
    \A s \in SioSids :
        (reqs[s] = << <<Wildcard>> >> /\ sub[s].pc = "idle" /\ conn[s] = "open") =>
            /\ rooms[s] = {AllRoom}
            /\ \A i \in 1 .. MaxPublish :
                  (pub[i].pc = "done" /\ s \in pub[i].settled) =>
                      /\ Cardinality(Deliveries(s, i)) = 1
                      /\ \A k \in Deliveries(s, i) : received[s][k].via = "wildcard"

\* the session has a live topic-follower task on the topic t
Follows(s, t) ==
    \E k \in DOMAIN topic_tasks[s] :
        topic_tasks[s][k].topic = t /\ ~ topic_tasks[s][k].aborted

\* C4: on the WebSocket transport, a publish to T that is over has sent the
\* message on T's broadcast sender, and every session that subscribed to T
\* before the publish and is still connected has pushed the per-topic payload
\* on its egress channel.
C4_WsTopicPayload ==
    \A s \in WsSids, i \in 1 .. MaxPublish :
        (/\ pub[i].pc = "done"
         /\ s \in pub[i].settled
         /\ conn[s] = "open"
         /\ Follows(s, pub[i].topic)) =>
            /\ \E k \in DOMAIN topic_channels[pub[i].topic] :
                  topic_channels[pub[i].topic][k].message_id = pub[i].message_id
            /\ \E k \in DOMAIN egress[s] :
                  /\ egress[s][k].frame = "topic"
                  /\ egress[s][k].topic = pub[i].topic
                  /\ egress[s][k].payload.message_id = pub[i].message_id

\* C5: once the disconnect handling of a session is over, the registry has no
\* entry for the session and get_clients no row of it, whatever the
\* interleaving of the session's subscribe handler with the disconnect.
C5_NoEntryAfterDisconnect ==
    \A s \in Sids :
        disc[s].pc = "done" =>
            /\ s \notin DOMAIN subscriptions
            /\ \A r \in get_clients : r.sid # s

\* position of the first occurrence of x in the sequence q
FirstIndex(q, x) == CHOOSE i \in DOMAIN q : q[i] = x /\ \A j \in 1 .. (i - 1) : q[j] # x

\* C6: a registry entry's topic list has no duplicate, holds exactly the
\* topics registered for the session since the entry was created, and has
\* them in the order of their first registration.
C6_NoDuplicateTopics ==
    \A k \in DOMAIN subscriptions :
        LET ts == subscriptions[k].topics
        IN  /\ \A i \in DOMAIN ts, j \in DOMAIN ts : i # j => ts[i] # ts[j]
            /\ Range(ts) = Range(added[k])
            /\ \A i \in DOMAIN ts, j \in DOMAIN ts :
                  i < j => FirstIndex(added[k], ts[i]) < FirstIndex(added[k], ts[j])

\* a session registered T, T2 and T again: its list is T, T2
C6_Witness ==
    \E k \in DOMAIN subscriptions :
        /\ Len(added[k]) > Len(subscriptions[k].topics)
        /\ Len(subscriptions[k].topics) >= 1

\* the committed message of seq tag q is not among the newest MESSAGES_LIMIT
\* rows, for some choice the query may make among rows of equal timestamp
OutsideNewest(q) ==
    \E K \in NewestRows(db.messages, MESSAGES_LIMIT) : \A r \in K : r.seq # q

\* C7: a GET /messages request that arrived at least TTL after the commit of
\* a SaveMessage command has the message in its result, unless the message is
\* outside the newest rows the query returns; dashboard mode enabled or not,
\* other requests racing on the cache slot or not.  (Results that stand for a
\* failed query are left aside.)
C7_CommittedVisible ==
    \A g \in 1 .. MaxGets :
        (gets[g].pc = "done" /\ gets[g].ok) =>
            \A q \in gets[g].due :
                \/ \E r \in gets[g].result : r.seq = q
                \/ OutsideNewest(q)

\* C8: right after a purge that commits, the messages table has at most
\* MAX_MESSAGES rows and none older than the clock reading of the purge minus
\* MAX_AGE, and the same for the consumptions table with MAX_CONSUMPTIONS;
\* rows of equal timestamp included.  The purge only deletes.
C8_RetentionAfterPurge ==
    (lastPurge.outcome = "committed") =>
        /\ Cardinality(db.messages) <= MAX_MESSAGES
        /\ \A r \in db.messages : r.timestamp >= lastPurge.cutoff
        /\ Cardinality(db.consumptions) <= MAX_CONSUMPTIONS
        /\ \A r \in db.consumptions : r.timestamp >= lastPurge.cutoff
        /\ lastPurge.cutoff = now - MAX_AGE
        /\ db.messages \subseteq lastPurge.before.messages
        /\ db.consumptions \subseteq lastPurge.before.consumptions

\* a committed purge of a store that had more rows than the cap, all of one
\* timestamp, in one table and a row older than the cutoff in the other
C8_Witness ==
    /\ lastPurge.outcome = "committed"
    /\ Cardinality(lastPurge.before.messages) > MAX_MESSAGES
    /\ \A r1 \in lastPurge.before.messages, r2 \in lastPurge.before.messages :
          r1.timestamp = r2.timestamp
    /\ \E r \in lastPurge.before.consumptions : r.timestamp < lastPurge.cutoff
    /\ db.messages # {}

\* the seq tags of the commands committed
AppliedSeqs == {applied[i].seq : i \in DOMAIN applied}

FlushFailed == lastFlush.outcome \in {"begin_failed", "rolled_back", "commit_failed"}

\* C9: when a flush has failed (at BEGIN, at a statement or at COMMIT) the
\* store is what it was before the flush, every command of the batch is
\* dropped and none of them is in the buffer; a dropped command is never
\* applied, by this flush or a later one.  When a flush has committed, every
\* command of the batch is applied.
C9_FlushAllOrNothing ==
    /\ (worker.pc = "select" /\ FlushFailed) =>
          /\ db = lastFlush.before
          /\ lastFlush.cmds \subseteq dropped
          /\ lastFlush.cmds \cap SeqsOf(batch) = {}
          /\ db_rx \in lastFlush.cmds => batch = <<>>
    /\ (worker.pc = "select" /\ lastFlush.outcome = "committed") =>
          lastFlush.cmds \subseteq AppliedSeqs
    /\ dropped \cap AppliedSeqs = {}
    /\ dropped \cap SeqsOf(batch) = {}
    /\ \A r \in db.messages \cup db.consumptions : r.seq \notin dropped

\* flushes have failed before and after a flush that committed
C9_Witness ==
    /\ Cardinality(dropped) >= 2
    /\ Len(applied) >= 1
    /\ \E a \in AppliedSeqs, d \in dropped : a > d
    /\ \E a \in AppliedSeqs, d \in dropped : a < d

\* the store after the given committed commands, applied from the left
RECURSIVE ApplyInOrder(_, _)
ApplyInOrder(d, seqs) ==
    IF seqs = <<>>
    THEN d
    ELSE ApplyInOrder(ExecCommand(d, db_queue[Head(seqs).seq]), Tail(seqs))

\* C10: the commands that commit are applied in the order they were
\* enqueued, within a batch and across batches: the apply order is the send
\* order, row ids grow with it, and the store is what the committed commands
\* give when executed in send order.
C10_AppliedInQueueOrder ==
    /\ \A i \in DOMAIN applied, j \in DOMAIN applied :
          i < j => applied[i].seq < applied[j].seq
    /\ \A r1 \in db.messages, r2 \in db.messages : r1.seq < r2.seq => r1.id < r2.id
    /\ \A r1 \in db.consumptions, r2 \in db.consumptions : r1.seq < r2.seq => r1.id < r2.id
    /\ db = ApplyInOrder(EmptyDb, applied)

\* commands of two batches have committed, a RegisterSubscription and an
\* UnregisterClient among them
C10_Witness ==
    /\ Len(applied) > BATCH_CAPACITY
    /\ \E i \in DOMAIN applied : db_queue[applied[i].seq].kind = "RegisterSubscription"
    /\ \E i \in DOMAIN applied : db_queue[applied[i].seq].kind = "UnregisterClient"

\* the queue positions of the RegisterSubscription commands sent for a session
RegisterCommands(sid) ==
    {k \in DOMAIN db_queue :
        db_queue[k].kind = "RegisterSubscription" /\ db_queue[k].sid = sid}

\* a command is in flight: still on the queue, or in the worker's buffer
InFlight(k) == k > db_rx \/ k \in SeqsOf(batch)

\* C15: for every session id in the registry there is a RegisterSubscription
\* command of that session that is in flight (on the queue or in the buffer)
\* or was committed to the store.
C15_RegistryBacked ==
    \A sid \in DOMAIN subscriptions :
        \E k \in RegisterCommands(sid) : InFlight(k) \/ k \in AppliedSeqs

\* the queue positions of the commands sent on behalf of a session
CommandsOf(sid) == {k \in DOMAIN db_queue : db_queue[k].sid = sid}

\* C16: once the disconnect handling of a session is over, its subscribe
\* handler has ended and every command sent on its behalf was flushed in a
\* committed batch, the store has no subscription row of the session,
\* whatever the interleaving of the two handlers.
C16_NoRowAfterDisconnect ==
    \A s \in SioSids :
        ( /\ disc[s].pc = "done" /\ sub[s].pc = "idle"
          /\ CommandsOf(s) \subseteq AppliedSeqs )
        => \A r \in db.subscriptions : r.sid # s

IsClientDisconnected(e) == e.event_type = "client_disconnected"

\* the topics of the client_disconnected events on the bus, in order
DisconnectedTopics ==
    LET es == SelectSeq(event_log, IsClientDisconnected)
    IN  [i \in DOMAIN es |-> es[i].topic]

\* the topics of a registry entry, none for no entry
TopicsOf(client_info) == IF client_info = <<>> THEN <<>> ELSE client_info[1].topics

\* C17: a call of unregister_client(sid) that is over has sent one
\* UnregisterClient command and emitted one client_disconnected event for
\* each topic of the registry entry it removed, in the entry's order, and
\* none when there was no entry to remove.
C17_EventPerRemovedTopic ==
    \A s \in SioSids :
        disc[s].pc = "done" =>
            /\ Cardinality({k \in CommandsOf(s) : db_queue[k].kind = "UnregisterClient"}) = 1
            /\ DisconnectedTopics = TopicsOf(disc[s].removed)

\* position k of the queue q holds the UnregisterClient of a repeated call:
\* the command sent before it for the same session is an UnregisterClient
\* too, at position j
RepeatOf(q, j, k) ==
    /\ j < k
    /\ q[k].kind = "UnregisterClient" /\ q[j].kind = "UnregisterClient"
    /\ q[j].sid = q[k].sid
    /\ \A m \in (j + 1) .. (k - 1) : q[m].sid # q[k].sid

\* a committed command that is not the repeat of a committed UnregisterClient
NotCommittedRepeat(a) ==
    ~ \E j \in AppliedSeqs : RepeatOf(db_queue, j, a.seq)

\* C18: a second unregister_client(sid), with no register of the session in
\* between, leaves the registry as it is and emits no event; and once its
\* command has committed the store is what the commands committed without
\* it give.
C18_UnregisterIdempotent ==
    /\ [](db = ApplyInOrder(EmptyDb, SelectSeq(applied, NotCommittedRepeat)))
    /\ [][(/\ Len(db_queue') = Len(db_queue) + 1
           /\ \E j \in DOMAIN db_queue : RepeatOf(db_queue', j, Len(db_queue')))
          => (subscriptions' = subscriptions /\ event_log' = event_log)]_vars

\* a session was registered and unregistered twice, the three commands have
\* committed, and the first unregister took its row away
C18_Witness ==
    \E i, j, k \in DOMAIN applied :
        /\ i < j /\ j < k
        /\ db_queue[applied[i].seq].kind = "RegisterSubscription"
        /\ db_queue[applied[i].seq].sid = db_queue[applied[j].seq].sid
        /\ RepeatOf(db_queue, applied[j].seq, applied[k].seq)
        /\ Len(SelectSeq(event_log, IsClientDisconnected)) = 1

\* the calls made with an argument missing, and the others
Rejected == SelectSeq(calls, LAMBDA a : a[1] = "" \/ a[2] = "" \/ a[3] = "")

Accepted == SelectSeq(calls, LAMBDA a : a[1] # "" /\ a[2] # "" /\ a[3] # "")

IsNewClient(e) == e.event_type = "new_client"

\* C19: register_subscription with an empty sid, consumer or topic is
\* rejected silently: the call sends no command, leaves the registry as it
\* is and emits no new_client event.  The RegisterSubscription commands and
\* the new_client events are those of the other calls, and no command,
\* registry entry or event has an empty session id, consumer or topic.
C19_MissingParameterRejected ==
    /\ [](/\ Cardinality(UNION {RegisterCommands(s) : s \in Sids \cup {""}}) = Len(Accepted)
          /\ Len(SelectSeq(event_log, IsNewClient)) = Len(Accepted)
          /\ \A k \in DOMAIN db_queue :
                db_queue[k].kind = "RegisterSubscription" =>
                    /\ db_queue[k].sid # "" /\ db_queue[k].consumer # ""
                    /\ db_queue[k].topic # ""
          /\ \A sid \in DOMAIN subscriptions :
                /\ sid # "" /\ subscriptions[sid].consumer # ""
                /\ "" \notin Range(subscriptions[sid].topics))
    /\ [][Len(Rejected') = Len(Rejected) + 1 =>
             /\ db_queue' = db_queue
             /\ subscriptions' = subscriptions
             /\ event_log' = event_log]_vars

\* a call with an empty sid, one with an empty consumer and one with an
\* empty topic were made after a call that registered the session
C19_Witness ==
    /\ Len(Accepted) = 1 /\ Len(Rejected) = 3
    /\ \E i, j, k \in DOMAIN Rejected :
          Rejected[i][1] = "" /\ Rejected[j][2] = "" /\ Rejected[k][3] = ""
    /\ calls[1][1] # ""
    /\ DOMAIN subscriptions # {}

PurgeFailed == lastPurge.outcome \in {"begin_failed", "rolled_back", "commit_failed"}

\* C20: a purge is atomic over the two tables: when the DELETE on messages,
\* the DELETE on consumptions or the commit has failed, and as long as the
\* purge has not committed, messages and consumptions are what they were
\* when the purge started.
C20_PurgeAllOrNothing ==
    (lastPurge.outcome = "running" \/ PurgeFailed) =>
        /\ db.messages = lastPurge.before.messages
        /\ db.consumptions = lastPurge.before.consumptions

\* a purge that had rows to delete in both tables failed at a DELETE and
\* was rolled back
C20_Witness ==
    /\ lastPurge.outcome = "rolled_back"
    /\ purge.pc = "idle"
    /\ Cardinality(db.messages) > MAX_MESSAGES
    /\ Cardinality(db.consumptions) > MAX_CONSUMPTIONS

\* C21: no purge runs before one sweep period has gone by since the start,
\* and the purges started never outnumber the periods gone by: a tick
\* starts at most one purge, and a purge that failed is not run again
\* before another tick.
C21_NoPurgeBeforeTick ==
    /\ lastPurge.n * PURGE_INTERVAL <= now
    /\ lastPurge.n + 1 = interval.ticks \/ lastPurge.n = interval.ticks
    /\ now < PURGE_INTERVAL => (purge.pc = "idle" /\ lastPurge.outcome = "none")

\* two periods have gone by, two purges have run, and the second committed on
\* a store that had messages
C21_Witness ==
    /\ lastPurge.n = 2
    /\ lastPurge.outcome = "committed"
    /\ lastPurge.before.messages # {}
    /\ now = 2 * PURGE_INTERVAL

\* the slot is filled and less than TTL old
SlotLive == cache.messages # <<>> /\ now - cache.messages[1].timestamp < TTL

\* C22: a GET /messages that read the dashboard flag as true answers from
\* the slot, without running the query, if and only if the slot is filled
\* and now - filled_at < TTL when it looks; otherwise it runs the query once
\* and overwrites the slot with (result, now).  No entry that is TTL old or
\* older is served.
C22_ServedIffLive ==
    /\ [](\A g \in 1 .. MaxGets :
            (gets[g].pc = "done" /\ gets[g].dashboard) =>
                /\ gets[g].queries = IF gets[g].hit THEN 0 ELSE 1
                /\ ~ gets[g].hit => gets[g].result = gets[g].data)
    /\ [][\A g \in 1 .. MaxGets :
            /\ (gets[g].pc = "check" /\ GetStep(g)) =>
                  /\ gets'[g].hit <=> SlotLive
                  /\ cache' = cache
                  /\ IF SlotLive
                     THEN /\ gets'[g].pc = "done"
                          /\ gets'[g].queries = 0
                          /\ gets'[g].result = cache.messages[1].data
                     ELSE gets'[g].pc = "fetch"
            /\ (gets[g].pc = "fetch" /\ gets[g].dashboard /\ GetStep(g)) =>
                  (gets'[g].pc = "store" /\ cache' = cache)
            /\ (gets[g].pc = "store" /\ GetStep(g)) =>
                  /\ cache'.messages[1].data = gets[g].data
                  /\ cache'.messages[1].timestamp = now
                  /\ gets'[g].pc = "done"]_vars

\* two requests missed and ran the query; the later one overwrote the slot,
\* at time TTL or later, with rows other than the earlier one's
C22_Witness ==
    \E g, h \in 1 .. MaxGets :
        /\ g < h
        /\ gets[g].pc = "done" /\ gets[g].dashboard /\ ~ gets[g].hit /\ gets[g].ok
        /\ gets[h].pc = "done" /\ gets[h].dashboard /\ ~ gets[h].hit /\ gets[h].ok
        /\ gets[h].result # gets[g].result
        /\ cache.messages[1].data = gets[h].result
        /\ cache.messages[1].timestamp >= TTL

\* no receiver of the bus is left
NoReceiver == bus.relay_rx = 0 /\ \A s \in WsSids : event_rx[s] = 0

RowsOf(sid) == {r \in db.subscriptions : r.sid = sid}

\* C24: for a live session whose subscribe handling is over and whose
\* commands have all committed, the store holds one subscription row for
\* each topic of the session's registry entry, and no other row of it.
C24_RowPerTopic ==
    \A s \in SioSids :
        ( /\ conn[s] = "open" /\ sub[s].pc = "idle"
          /\ s \in DOMAIN subscriptions
          /\ CommandsOf(s) \subseteq AppliedSeqs )
        => /\ {r.topic : r \in RowsOf(s)} = Range(subscriptions[s].topics)
           /\ Cardinality(RowsOf(s)) = Len(subscriptions[s].topics)

\* C25: the batch worker's buffer never holds more than BATCH_CAPACITY
\* commands; at the select! it holds fewer, since a buffer that reaches the
\* capacity is flushed at once; and when flush_batch returns, whatever its
\* outcome (commit, rollback, failure to begin or to commit), the buffer is
\* empty.
C25_BufferBounded ==
    /\ [](/\ Len(batch) <= BATCH_CAPACITY
          /\ worker.pc = "select" => Len(batch) < BATCH_CAPACITY)
    /\ [][(worker.pc # "select" /\ worker'.pc = "select") =>
             (batch' = <<>> /\ lastFlush'.outcome # "running")]_vars
    /\ [][(worker.pc = "select" /\ Len(batch') >= BATCH_CAPACITY) =>
             worker'.pc = "begin"]_vars

\* a full buffer was flushed and the flush failed to begin; an earlier flush
\* had committed
C25_Witness ==
    /\ worker.pc = "select"
    /\ lastFlush.outcome = "begin_failed"
    /\ Cardinality(lastFlush.cmds) = BATCH_CAPACITY
    /\ batch = <<>>
    /\ applied # <<>>

\* the k-th command of the queue went through a flush that is over: it was
\* committed, or dropped with its batch
Flushed(k) ==
    /\ k <= db_rx
    /\ db_queue[k].seq \notin SeqsOf(batch)
    /\ db_queue[k].seq \in AppliedSeqs \cup dropped
    /\ db_queue[k].seq \in lastFlush.cmds => lastFlush.outcome # "running"

\* C26: with the batch worker and its tick scheduled fairly, every command
\* put on the queue is eventually taken into the buffer and flushed: it ends
\* committed or dropped, whether or not another command arrives after it.
C26_EveryCommandFlushed ==
    \A k \in 1 .. MaxCmds : (k <= Len(db_queue)) ~> Flushed(k)

\* the last command of the queue was alone in the buffer, was flushed on a
\* tick and committed, an earlier command was dropped, and nothing is left
\* in the queue or the buffer
C26_Witness ==
    /\ Len(db_queue) = MaxCmds
    /\ Flushed(MaxCmds)
    /\ lastFlush.cmds = {db_queue[MaxCmds].seq}
    /\ lastFlush.outcome = "committed"
    /\ dropped # {}
    /\ db_rx = Len(db_queue) /\ batch = <<>> /\ worker.pc = "select"

\* the command of the queue that carries the tag q
CommandOfSeq(q) == CHOOSE c \in Range(db_queue) : c.seq = q

\* the store after the commands of a log, in order, on the store d
RECURSIVE ApplyLog(_, _)
ApplyLog(d, log) ==
    IF log = <<>> THEN d
    ELSE ApplyLog(ExecCommand(d, CommandOfSeq(Head(log))), Tail(log))

\* the purge holds an open transaction that has written
PurgeWriting == purge.pc \in {"consumptions", "commit"}

\* the flush holds an open transaction that has written
FlushWriting == worker.pc = "drain" /\ worker.log # <<>>

\* the retention bounds on the store d, for the cutoff of the purge
RetentionBounds(d, cutoff) ==
    /\ Cardinality(d.messages) <= MAX_MESSAGES
    /\ \A r \in d.messages : r.timestamp >= cutoff
    /\ Cardinality(d.consumptions) <= MAX_CONSUMPTIONS
    /\ \A r \in d.consumptions : r.timestamp >= cutoff

\* C27: a purge and a batch flush never write at the same time.  The one
\* that has written holds the write lock until its transaction ends; what
\* the purge sees and deletes from is the committed store, made of whole
\* batches; the store changes only by the commit of a whole batch, applied
\* to the store as the purge left it or as the purge will find it, or by
\* the commit of a purge, which only deletes and leaves the store within
\* the retention bounds.
C27_PurgeSerialized ==
    /\ [](/\ writer = "purge" <=> PurgeWriting
          /\ writer = "batch" <=> FlushWriting
          /\ \A r \in db.messages \cup db.consumptions : r.seq \in AppliedSeqs
          /\ PurgeWriting =>
                /\ purge.tx.messages \subseteq db.messages
                /\ purge.tx.consumptions \subseteq db.consumptions
                /\ purge.tx.subscriptions = db.subscriptions)
    /\ [][db' # db =>
            \/ /\ FlushWriting /\ ~ PurgeWriting
               /\ lastFlush'.outcome = "committed"
               /\ db' = ApplyLog(db, worker.log)
               /\ purge' = purge
            \/ /\ purge.pc = "commit" /\ ~ FlushWriting
               /\ lastPurge'.outcome = "committed"
               /\ db' = purge.tx
               /\ RetentionBounds(db', purge.cutoff)
               /\ worker' = worker /\ batch' = batch]_vars

\* a purge that has deleted rows is about to commit while a flush, begun
\* with commands in its batch, has not written yet; a batch was committed
\* before the purge
C27_Witness ==
    /\ purge.pc = "commit"
    /\ purge.tx.messages # db.messages
    /\ worker.pc = "drain" /\ batch # <<>>
    /\ applied # <<>>

\* the places of a session's topic_tasks list
FollowerIds == 1 .. 2 * MaxSubs

\* the k-th follower of the session was spawned and has not stopped
FollowerLive(s, k) ==
    /\ k \in DOMAIN topic_tasks[s]
    /\ ~ topic_tasks[s][k].aborted /\ ~ topic_tasks[s][k].exited

\* C28: a topic follower that is signalled a lag keeps running: the lag
\* pushes nothing and moves its receiver to the oldest string the channel
\* holds; from where it started or resumed it pushes every string in order,
\* none skipped and none twice; it leaves its loop only when the push onto
\* the egress channel fails (its topic's channel is never closed); and a
\* string sent at or after the place it resumed from is eventually pushed,
\* unless the follower lags again, exits on a failed push or is aborted.
C28_FollowerSurvivesLag ==
    /\ [](\A s \in WsSids : \A k \in DOMAIN topic_tasks[s] :
            LET task == topic_tasks[s][k]
            IN  /\ \A i \in task.resumed .. task.next - 1 :
                      \E j \in DOMAIN task.forwarded : task.forwarded[j] = i
                /\ \A j \in DOMAIN task.forwarded :
                      /\ task.forwarded[j] < task.next
                      /\ \A h \in DOMAIN task.forwarded :
                            h < j => task.forwarded[h] < task.forwarded[j])
    /\ [][\A s \in WsSids : \A k \in DOMAIN topic_tasks[s] :
            /\ topic_tasks'[s][k].lagged > topic_tasks[s][k].lagged =>
                  /\ FollowerLive(s, k)'
                  /\ topic_tasks'[s][k].next = OldestOf(topic_tasks[s][k].topic)
                  /\ egress' = egress
            /\ (~ topic_tasks[s][k].exited /\ topic_tasks'[s][k].exited) =>
                  EgressClosed(s)]_vars
    /\ \A s \in WsSids : \A k \in FollowerIds : \A i \in 1 .. MaxTopicSends :
            (/\ FollowerLive(s, k)
             /\ topic_tasks[s][k].lagged > 0
             /\ topic_tasks[s][k].resumed <= i
             /\ i <= Len(topic_channels[topic_tasks[s][k].topic]))
            ~> (\/ ~ FollowerLive(s, k)
                \/ topic_tasks[s][k].resumed > i
                \/ \E j \in DOMAIN topic_tasks[s][k].forwarded :
                      topic_tasks[s][k].forwarded[j] = i)

\* a follower was signalled a lag, is still running and has pushed a string
\* that was sent after the lag
C28_Witness ==
    \E s \in WsSids : \E k \in DOMAIN topic_tasks[s] :
        /\ FollowerLive(s, k)
        /\ topic_tasks[s][k].lagged > 0
        /\ \E j \in DOMAIN topic_tasks[s][k].forwarded :
              topic_tasks[s][k].forwarded[j] > topic_tasks[s][k].lag_at

\* C29: a receiver of the Event Bus that was signalled a lag keeps running,
\* to relay the events emitted afterwards: the relay task of main always,
\* the bus relay of a session as long as the session is not torn down.
C29_RelayKeepsRunning ==
    /\ "relay" \in bus.lagged => bus.relay_rx > 0
    /\ \A s \in WsSids :
          (s \in bus.lagged /\ disc[s].pc = "idle") => event_rx[s] > 0

\* the UnregisterClient commands sent for a session
UnregisterCommands(s) ==
    {k \in DOMAIN db_queue :
        db_queue[k].kind = "UnregisterClient" /\ db_queue[k].sid = s}

\* the cleanup of the session's handler is over
TornDown(s) == disc[s].pc = "done"

\* the claim of C30 as it stands: after the cleanup, unregister_client was
\* called once for the session, none of its tasks is running and nothing
\* more is pushed to its egress.
C30_NothingAfterTeardown ==
    /\ [](\A s \in WsSids : TornDown(s) =>
            /\ Cardinality(UnregisterCommands(s)) = 1
            /\ LiveTasks(s) = {})
    /\ [][\A s \in WsSids : TornDown(s) => egress'[s] = egress[s]]_vars

\* C30: the cleanup calls unregister_client once for the session and asks
\* every task of the session that has not finished to stop: the bus relay,
\* the egress writer and each follower of the list.  The abort returns
\* before the task has stopped: a relay or a follower may still push what
\* its channel has ready.  After the cleanup no task is spawned or started
\* again, a push comes only from a task that has not stopped yet, every
\* task eventually stops, and from then on nothing is pushed to the
\* session's egress.
C30_TeardownAbortsAll ==
    /\ [](\A s \in WsSids :
            /\ ~ TornDown(s) =>
                  (UnregisterCommands(s) = {} /\ ws_tasks[s].cancelling = {})
            /\ TornDown(s) =>
                  /\ Cardinality(UnregisterCommands(s)) = 1
                  /\ LiveTasks(s) = ws_tasks[s].cancelling)
    /\ [][\A s \in WsSids : TornDown(s) =>
            /\ Len(topic_tasks'[s]) = Len(topic_tasks[s])
            /\ LiveTasks(s)' \subseteq LiveTasks(s)
            /\ egress'[s] # egress[s] =>
                  \/ RelayTask \in ws_tasks[s].cancelling /\ event_rx'[s] # event_rx[s]
                  \/ \E k \in DOMAIN topic_tasks[s] :
                        /\ FollowerTask(k) \in ws_tasks[s].cancelling
                        /\ topic_tasks'[s][k].next # topic_tasks[s][k].next]_vars
    /\ \A s \in WsSids : TornDown(s) ~> [](LiveTasks(s) = {})

\* after the cleanup a follower that had a string ready pushed it, and then
\* every task of the session stopped, the follower and the egress writer
\* by their abort
C30_Witness ==
    \E s \in WsSids :
        /\ TornDown(s)
        /\ LiveTasks(s) = {}
        /\ ws_tasks[s].send = "aborted"
        /\ \E k \in DOMAIN topic_tasks[s] :
              /\ topic_tasks[s][k].aborted
              /\ \E j \in DOMAIN egress[s] :
                    /\ j > ws_tasks[s].pushed_at_cleanup
                    /\ egress[s][j].frame = "topic"

\* send_task is over: its loop broke on a wire error, or its abort took effect
WriterOver(s) == ws_tasks[s].send \in {"ended", "aborted"}

\* the claim of C31 as it stands: after the disconnect the strings already
\* queued on the egress channel are still written to the wire, and the
\* egress writer stops only on a wire error.
C31_EgressDrains ==
    \A s \in WsSids :
        (TornDown(s) /\ ws_tasks[s].send # "running") =>
            \/ ws_tasks[s].send = "ended"
            \/ ws_tasks[s].sent >= ws_tasks[s].pushed_at_cleanup

\* C31: after the disconnect the session takes no more ingress; the egress
\* writer is asked to stop along with the bus relay and the followers, and
\* writes a string only for as long as its abort has not taken effect; it
\* eventually stops, by its abort or on a wire error; once it has stopped it
\* never runs again and the strings left on the egress channel stay
\* unwritten.
C31_WriterAborted ==
    /\ [](\A s \in WsSids :
            /\ ws_tasks[s].sent <= Len(egress[s])
            /\ (TornDown(s) /\ ws_tasks[s].send = "running") =>
                  SendTask \in ws_tasks[s].cancelling)
    /\ [][\A s \in WsSids :
            /\ TornDown(s) => (reqs'[s] = reqs[s] /\ sub'[s] = sub[s]
                                /\ conn'[s] = "closed")
            /\ WriterOver(s) => ws_tasks'[s].send = ws_tasks[s].send
                                 /\ ws_tasks'[s].sent = ws_tasks[s].sent]_vars
    /\ \A s \in WsSids : TornDown(s) ~> [](WriterOver(s))

\* the session is torn down and the egress writer was stopped by its abort
\* with strings left unwritten on the egress channel
C31_Witness ==
    \E s \in WsSids :
        /\ TornDown(s)
        /\ ws_tasks[s].send = "aborted"
        /\ ws_tasks[s].sent < ws_tasks[s].pushed_at_cleanup

\* C32: the commands of a session are on the batcher queue in the order of
\* the session's ingress: the RegisterSubscription commands of a subscribe
\* request in the order of its topic list, and every RegisterSubscription of
\* the session before its UnregisterClient.
C32_SessionOrder ==
    \A s \in Sids :
        /\ \A j \in UnregisterCommands(s), k \in DOMAIN db_queue :
              (db_queue[k].kind = "RegisterSubscription" /\ db_queue[k].sid = s) => k < j
        /\ LET regs == SelectSeq(db_queue, LAMBDA c :
                            c.kind = "RegisterSubscription" /\ c.sid = s)
           IN  \A k \in DOMAIN regs :
                  \E r \in DOMAIN reqs[s] :
                      k <= Len(reqs[s][r]) /\ regs[k].topic = reqs[s][r][k]

\* C33: on the subscribe path a handler takes the write lock of
\* topic_channels, the step that also spawns the follower, only for a topic
\* that has no entry yet; and each register_subscription call that sent its
\* command takes the write lock of the registry once, the step that writes
\* the session's entry.
C33_LocksOnSubscribe ==
    [][\A s \in WsSids :
          /\ Len(topic_tasks'[s]) > Len(topic_tasks[s]) =>
                Head(sub[s].topics) \notin DOMAIN topic_channels
          /\ (sub[s].pc = "write" /\ sub'[s] # sub[s]) =>
                (sub'[s].pc = "emit" /\ s \in DOMAIN subscriptions')]_vars

\* the store is busy: a flush or a purge is between its begin and its end
StoreBusy == worker.pc # "select" \/ purge.pc # "idle"

\* C34: a call of save_message, save_consumption, register_subscription or
\* unregister_client runs to its end whatever the store is doing: in the
\* middle of a flush, during a purge, after failures.  The call touches
\* neither the store nor its two writers; the step that writes the registry
\* under its lock is no step of a store operation.
C34_FacadeNeverWaitsForStore ==
    /\ [](Len(db_queue) < MaxCmds =>
            /\ ENABLED CallSaveMessage
            /\ ENABLED CallSaveConsumption
            /\ ENABLED CallRegister
            /\ ENABLED CallUnregister)
    /\ [][(Len(db_queue') > Len(db_queue) \/ subscriptions' # subscriptions) =>
            /\ UNCHANGED <<db, writer, db_rx, batch, worker, applied, dropped, lastFlush>>
            /\ UNCHANGED <<purge, lastPurge>>]_vars

\* a flush holds the write lock with its transaction open, the purge has
\* begun and waits for the lock, and a command sent since the purge tick
\* waits on the queue, which takes more
C34_Witness ==
    /\ worker.pc = "drain" /\ writer = "batch"
    /\ purge.pc = "messages"
    /\ db_rx < Len(db_queue)
    /\ db_queue[Len(db_queue)].timestamp >= PURGE_INTERVAL
    /\ Len(db_queue) < MaxCmds


\* ---------------------------------------------------------------------------
\* The command channel once every sender is gone (broker.rs 60-112)
\* ---------------------------------------------------------------------------

\* The end of the channel: what the receiver finds behind the last buffered
\* command once the Broker, which owns the only UnboundedSender, is dropped.
ClosedMark ==
    [kind |-> "Closed", sid |-> "", consumer |-> "", topic |-> "",
     message_id |-> "", producer |-> "", timestamp |-> 0,
     seq |-> Len(db_queue) + 1]

ChannelClosed ==
    /\ db_queue # <<>>
    /\ db_queue[Len(db_queue)].kind = "Closed"

\* Dropping the Broker drops db_tx: the channel closes, the commands already
\* buffered stay receivable.
DropSenders ==
    /\ ~ChannelClosed
    /\ db_queue' = Append(db_queue, ClosedMark)
    /\ UNCHANGED <<now, db, writer, db_rx, batch, worker, event_log, applied,
                   dropped, lastFlush>>
    /\ UNCHANGED purgeVars
    /\ UNCHANGED frontVars
    /\ UNCHANGED <<cacheVars, calls, bus, ws_tasks>>

\* db_rx.recv() resolves to None: the channel is closed and its buffer empty.
RecvNone ==
    /\ ChannelClosed
    /\ db_rx = Len(db_queue) - 1

\* A select! branch is disabled when its future resolves to a value that its
\* pattern refuses.  `Some(cmd) = db_rx.recv()` refuses None; `_ =
\* interval.tick()` refuses nothing, and an interval always ticks again.
RecvBranchDisabled == RecvNone

TickBranchDisabled == FALSE

\* `else => break`: taken only when every branch of the select! is disabled.
\* The task then ends.
WorkerBreak ==
    /\ worker.pc = "select"
    /\ TickBranchDisabled
    /\ RecvBranchDisabled
    /\ worker' = [worker EXCEPT !.pc = "done"]
    /\ UNCHANGED <<now, db, writer, db_queue, db_rx, batch, event_log, applied,
                   dropped, lastFlush>>
    /\ UNCHANGED purgeVars
    /\ UNCHANGED frontVars
    /\ UNCHANGED <<cacheVars, calls, bus, ws_tasks>>

\* The facade is called only while the Broker exists.  WorkerBreak is left out
\* of the disjunction: its guard holds in no state.  A tick that finds the
\* batch empty changes nothing and is a stuttering step.
NextShutdown ==
    \/ (~ChannelClosed /\ CallSaveMessage)
    \/ (~ChannelClosed /\ CallSaveConsumption)
    \/ (~ChannelClosed /\ CallRegister)
    \/ (~ChannelClosed /\ CallUnregister)
    \/ BatchWorker
    \/ DropSenders

SpecShutdown == Init /\ [][NextShutdown]_vars /\ BatchFairness /\ WF_vars(WorkerBreak)

\* C35: once the command channel is closed, the batch worker eventually
\* leaves its loop and its task ends, and when it has ended every command that
\* was sent before the close has been flushed.
C35_WorkerTerminates ==
    /\ ChannelClosed ~> (worker.pc = "done")
    /\ [](worker.pc = "done" =>
            \A k \in 1..(Len(db_queue) - 1) : Flushed(k))


\* ---------------------------------------------------------------------------
\* get_graph_state (broker.rs 568-625)
\* ---------------------------------------------------------------------------

\* SELECT DISTINCT producer FROM messages
QueryProducers(d) == {r.producer : r \in d.messages}

\* SELECT DISTINCT consumer FROM subscriptions UNION SELECT DISTINCT consumer
\* FROM consumptions
QueryConsumers(d) ==
    {r.consumer : r \in d.subscriptions} \cup {r.consumer : r \in d.consumptions}

QueryTopics_messages_only(d) == {r.topic : r \in d.messages}

\* SELECT DISTINCT topic FROM messages UNION SELECT DISTINCT topic FROM
\* subscriptions
QueryTopics(d) ==
    {r.topic : r \in d.messages} \cup {r.topic : r \in d.subscriptions}

\* SELECT topic, consumer FROM subscriptions (the rows, as the set of their
\* values)
QuerySubscriptions(d) == {<<r.topic, r.consumer>> : r \in d.subscriptions}

\* SELECT DISTINCT producer, topic FROM messages
QueryPublications(d) == {<<r.producer, r.topic>> : r \in d.messages}

RunQuery(q, d) ==
    CASE q = "producers"     -> QueryProducers(d)
      [] q = "consumers"     -> QueryConsumers(d)
      [] q = "topics"        -> QueryTopics(d)
      [] q = "subscriptions" -> QuerySubscriptions(d)
      [] q = "publications"  -> QueryPublications(d)

\* get_graph_state is called: tokio::join! starts the five queries, each on
\* a connection of the pool.
GraphCall ==
    /\ graph.pc \in {"idle", "done"}
    /\ graph' = [GraphIdle EXCEPT !.pc = "join", !.pending = GraphQueries]
    /\ UNCHANGED <<dashboard_enabled, cache, gets>>
    /\ UNCHANGED <<now, db, writer, event_log>>
    /\ UNCHANGED <<batchVars, purgeVars, sessVars, pub, calls, bus, ws_tasks>>

\* One of the five queries completes.  It is a statement of its own, outside
\* any transaction: it reads the store as committed at that moment.  An Err
\* leaves its slot empty (unwrap_or_default, `if let Ok`).
GraphQuery(q) ==
    /\ graph.pc = "join"
    /\ q \in graph.pending
    /\ \/ graph' = [graph EXCEPT ![q] = RunQuery(q, db),
                                 !.seen = @ \cup {db},
                                 !.pending = @ \ {q}]
       \/ graph' = [graph EXCEPT !.failed = TRUE,
                                 !.pending = @ \ {q}]
    /\ UNCHANGED <<dashboard_enabled, cache, gets>>
    /\ UNCHANGED <<now, db, writer, event_log>>
    /\ UNCHANGED <<batchVars, purgeVars, sessVars, pub, calls, bus, ws_tasks>>

ConsumeLinks(subs) ==
    {[source |-> x[1], target |-> x[2], link_type |-> "consume"] : x \in subs}

PublishLinks(pubs) ==
    {[source |-> x[1], target |-> x[2], link_type |-> "publish"] : x \in pubs}

\* The join is over: the GraphState is built from the five results.
GraphReturn ==
    /\ graph.pc = "join"
    /\ graph.pending = {}
    /\ graph' = [graph EXCEPT
                   !.pc = "done",
                   !.result = [producers |-> graph.producers,
                               consumers |-> graph.consumers,
                               topics    |-> graph.topics,
                               links     |-> ConsumeLinks(graph.subscriptions) \cup
                                             PublishLinks(graph.publications)]]
    /\ UNCHANGED <<dashboard_enabled, cache, gets>>
    /\ UNCHANGED <<now, db, writer, event_log>>
    /\ UNCHANGED <<batchVars, purgeVars, sessVars, pub, calls, bus, ws_tasks>>

get_graph_state == GraphCall \/ (\E q \in GraphQueries : GraphQuery(q)) \/ GraphReturn

\* how many commands the facade sends while the graph is being read
MaxGraphCmds == 2

NextGraph ==
    \/ (Len(db_queue) < MaxGraphCmds /\
          (CallSaveMessage \/ CallSaveConsumption \/ CallRegister \/ CallUnregister))
    \/ BatchWorker
    \/ get_graph_state

SpecGraph == Init /\ [][NextGraph]_vars

\* every link of the GraphState has its two ends among the nodes
SelfConsistent(g) ==
    \A l \in g.links :
        IF l.link_type = "publish"
        THEN l.source \in g.producers /\ l.target \in g.topics
        ELSE l.source \in g.topics /\ l.target \in g.consumers

\* C36 as stated: every GraphState that get_graph_state returns is
\* self-consistent, whatever commits between its five queries.
C36_GraphSelfConsistent ==
    graph.pc = "done" => SelfConsistent(graph.result)

\* C36, amended: a GraphState built from five queries that all succeeded and
\* all read the same committed store state is self-consistent: each publish
\* link has its source in producers and its target in topics, each consume
\* link its source in topics and its target in consumers.
C36_ConsistentOnOneSnapshot ==
    (graph.pc = "done" /\ ~ graph.failed /\ Cardinality(graph.seen) = 1)
        => SelfConsistent(graph.result)

\* a call whose five queries succeeded on one store state, after a commit,
\* and that returned links of both kinds
C36_Witness ==
    /\ graph.pc = "done" /\ ~ graph.failed /\ Cardinality(graph.seen) = 1
    /\ applied # <<>>
    /\ \E l \in graph.result.links : l.link_type = "publish"
    /\ \E l \in graph.result.links : l.link_type = "consume"


\* C37: whatever subscribe requests a Socket.IO session sent (any mix and
\* order of "*" and named topics, with repeats) and whatever topic a message
\* is published to, the session gets the message of one publish request at
\* most once.
C37_AtMostOnce ==
    \A s \in SioSids, i \in 1 .. MaxPublish :
        Cardinality(Deliveries(s, i)) <= 1


\* C38: a WebSocket session has at most one live topic-follower task per
\* topic, however many times it subscribed to the topic: two tasks of its
\* list that are running follow different topics.
C38_OneFollowerPerTopic ==
    \A s \in WsSids : \A k, l \in DOMAIN topic_tasks[s] :
        ( /\ k # l
          /\ ~ topic_tasks[s][k].aborted /\ ~ topic_tasks[s][k].exited
          /\ ~ topic_tasks[s][l].aborted /\ ~ topic_tasks[s][l].exited )
        => topic_tasks[s][k].topic # topic_tasks[s][l].topic


\* C39 as stated: under concurrent misses a cache slot is never overwritten
\* with the result of a query that read the store before the query whose
\* result the slot holds.
C39_FreshnessMonotonic ==
    [][\A g \in 1 .. MaxGets :
          (gets[g].pc = "store" /\ GetStep(g) /\ cache.messages # <<>>) =>
              cache.messages[1].read_no < gets[g].read_no]_vars

\* C39, amended: under concurrent misses the last writer wins.  A request
\* that missed writes its own result in the slot, stamped with the time of the
\* write, whether the result the slot held was read before or after its own;
\* the slot always holds the result of a request that is over; and a value is
\* served from the slot only less than TTL after it was written there.
C39_LastWriterWins ==
    /\ [][\A g \in 1 .. MaxGets :
            /\ (gets[g].pc = "store" /\ GetStep(g)) =>
                  /\ cache'.messages[1].read_no = gets[g].read_no
                  /\ cache'.messages[1].data = gets[g].data
                  /\ cache'.messages[1].timestamp = now
            /\ (gets[g].pc = "check" /\ GetStep(g) /\ gets'[g].hit) =>
                  /\ now - cache.messages[1].timestamp < TTL
                  /\ gets'[g].result = cache.messages[1].data]_vars
    /\ [](cache.messages # <<>> =>
            \E g \in 1 .. MaxGets :
                /\ gets[g].pc = "done" /\ ~ gets[g].hit /\ gets[g].dashboard
                /\ gets[g].read_no = cache.messages[1].read_no
                /\ gets[g].data = cache.messages[1].data)

\* two requests missed; the one whose query ran first wrote the slot last,
\* over the other's result, which differs from its own
C39_Witness ==
    \E g, h \in 1 .. MaxGets :
        /\ gets[g].pc = "done" /\ gets[g].dashboard /\ ~ gets[g].hit
        /\ gets[h].pc = "done" /\ gets[h].dashboard /\ ~ gets[h].hit
        /\ gets[g].ok /\ gets[h].ok
        /\ gets[g].read_no < gets[h].read_no
        /\ gets[g].data # gets[h].data
        /\ cache.messages # <<>>
        /\ cache.messages[1].read_no = gets[g].read_no


\* the topics of the events of one type sent on the bus
EventTopics(event_type) ==
    {event_log[k].topic :
        k \in {j \in DOMAIN event_log : event_log[j].event_type = event_type}}

\* C40: once a Socket.IO session has disconnected and its subscribe and
\* disconnect handlers are over, the topics for which client_disconnected was
\* emitted are the topics for which new_client was emitted for the session,
\* under every interleaving of the two handlers.  (The events carry no sid;
\* where one session exists, every event on the bus is about it.)
C40_EventsBalanced ==
    \A s \in SioSids :
        (conn[s] = "closed" /\ disc[s].pc = "done" /\ sub[s].pc = "idle")
            => EventTopics("client_disconnected") = EventTopics("new_client")

====
